---- MODULE Spec2Model ----
(***************************************************************************)
(* Model of the code-study-sync background worker: the GitHub device       *)
(* authorization flow (github-auth.ts), its persisted records              *)
(* (githubStorage.ts) and the message handlers composing them              *)
(* (background/index.ts).                                                  *)
(*                                                                         *)
(* One JavaScript event loop: every `await` of a storage call, a network   *)
(* call or a timer is a suspension point, and the code between two         *)
(* suspension points runs as one atomic action.                            *)
(***************************************************************************)
EXTENDS Naturals, Integers, FiniteSets, Sequences, TLC

(* ---------------------------------------------------------------- bounds *)
NumHandlers == 2      \* github-login dispatches that may be in flight
MaxNow == 2           \* seconds the clock may advance
MaxExpiresIn == 1     \* largest expires_in (seconds) the server answers
MaxPending == 1       \* non-terminal token responses per poll under Spec
MaxTimers == 2        \* 30 s timeouts of submit clicks pending at once
MaxEvents == 3        \* success detections the watcher processes
MaxAccepted == 2      \* Accepted result elements one mutation batch adds

(* ------------------------------------------------------ program constants *)
maxAttempts == 60     \* github-auth.ts:63
MsPerSecond == 1000   \* github-auth.ts:41, githubStorage.ts:112
timeout == 10000      \* githubStorage.ts:190, 232 (ms)
interval == 100       \* githubStorage.ts:192, 234 (ms)

Handlers == 1 .. NumHandlers
Tokens == {"tokA", "tokB"}
ExpiresInValues == 0 .. MaxExpiresIn
VerificationUri == "https://github.com/login/device"
PollInterval == 5

Null == [null |-> TRUE]
NoResp == [kind |-> "none"]
NoAnswer == [kind |-> "none"]

(* A command handler of the dispatch surface: which command, where it is   *)
(* suspended, the message it was dispatched with, its locals, what its     *)
(* collaborator answered last, the requests it has issued and what it sent *)
(* back.                                                                   *)
IdleCmd ==
    [name |-> "none", pc |-> "idle", arg |-> Null, token |-> "", info |-> Null,
     auth |-> "none", answer |-> NoAnswer, requests |-> <<>>,
     resp |-> NoResp, sent |-> 0]

(* Submission ids the page may show; null and '' are the falsy ones.       *)
NullId == "null"
SubmissionIds == {"555", "556"}
PageIds == SubmissionIds \cup {NullId, ""}

(* One run of getSolutionCode: the wait it is in, that wait's `elapsed`,   *)
(* the runs of `check` each wait has made and what the latest of them      *)
(* found, how the wait settled, and the error the run was rejected with.   *)
NoExtraction ==
    [pc |-> "idle", elapsed |-> 0,
     checks |-> [container |-> 0, monaco |-> 0],
     found |-> [container |-> FALSE, monaco |-> FALSE],
     settled |-> "none", error |-> <<>>]

(* The content script after initLeetCodeMonitoring: nothing armed, nothing *)
(* processed.  flagSetBy remembers which callback assigned the flag last;  *)
(* timers counts the pending 30 s timeouts, which fire in the order of     *)
(* their clicks, so the timeout of the latest click is the last to fire.   *)
InitWatch ==
    [isWaitingForSubmissionResult |-> FALSE,
     lastProcessedSubmissionId |-> NullId,
     flagSetBy |-> "none",
     timers |-> 0,
     events |-> [i \in PageIds |-> 0],
     running |-> 0,
     skipped |-> 0,
     messages |-> 0,
     batch |-> [id |-> NullId, accepted |-> 0],
     extraction |-> NoExtraction]

VARIABLES
    authToken,     \* record 'github_auth_token': string, "" = absent
    deviceCode,    \* record 'github_device_code': DeviceCodeInfo or Null
    repoConfig,    \* record 'github_selected_repo'
    now,           \* Date.now(), in ms
    pc,            \* position of each github-login handler and of its poll task
    info,          \* per handler: the value its pending storage write carries
    resp,          \* per handler: what sendResponse was called with
    attempts,      \* per handler: `attempts` of its pollForAccessToken
    pollResult,    \* per handler: how its pollForAccessToken settled
    tokenGot,      \* per handler: the access_token its poll returned
    lastAnswer,    \* per handler: what the token endpoint answered last
    cmd,           \* the command handler in flight (other than github-login)
    watch          \* the content script's submission watcher

vars == <<authToken, deviceCode, repoConfig, now, pc, info, resp, attempts,
          pollResult, tokenGot, lastAnswer, cmd, watch>>

(* ================================================================ strings *)
(* Strings the code takes apart or puts together are sequences of          *)
(* characters.                                                             *)
DigitChars == <<"0", "1", "2", "3", "4", "5", "6", "7", "8", "9">>

(* Number to decimal string, as a template literal does it. *)
RECURSIVE DecimalString(_)
DecimalString(n) ==
    IF n < 10 THEN <<DigitChars[n + 1]>>
    ELSE DecimalString(n \div 10) \o <<DigitChars[(n % 10) + 1]>>

endsWith(s, ch) == Len(s) > 0 /\ s[Len(s)] = ch

(* Code points of the characters that occur in the modelled source texts.  *)
CodeChars == {"x", "=", "1", "e'"}
CodePoint(ch) ==
    CASE ch = "x" -> 120
      [] ch = "=" -> 61
      [] ch = "1" -> 49
      [] ch = "e'" -> 233        \* U+00E9, e with acute accent

(* unescape(encodeURIComponent(c)): the UTF-8 bytes of a character, each   *)
(* byte as one char code (code points below U+0800 suffice here).          *)
Utf8Char(cp) ==
    IF cp < 128 THEN <<cp>>
    ELSE <<192 + (cp \div 64), 128 + (cp % 64)>>

RECURSIVE Utf8(_)
Utf8(s) == IF s = <<>> THEN <<>> ELSE Utf8Char(CodePoint(Head(s))) \o Utf8(Tail(s))

Base64Alphabet ==
    <<"A", "B", "C", "D", "E", "F", "G", "H", "I", "J", "K", "L", "M",
      "N", "O", "P", "Q", "R", "S", "T", "U", "V", "W", "X", "Y", "Z",
      "a", "b", "c", "d", "e", "f", "g", "h", "i", "j", "k", "l", "m",
      "n", "o", "p", "q", "r", "s", "t", "u", "v", "w", "x", "y", "z",
      "0", "1", "2", "3", "4", "5", "6", "7", "8", "9", "+", "/">>

(* btoa on a string of char codes below 256. *)
RECURSIVE btoa(_)
btoa(b) ==
    IF Len(b) = 0 THEN <<>>
    ELSE IF Len(b) = 1
    THEN <<Base64Alphabet[(b[1] \div 4) + 1],
           Base64Alphabet[(b[1] % 4) * 16 + 1], "=", "=">>
    ELSE IF Len(b) = 2
    THEN <<Base64Alphabet[(b[1] \div 4) + 1],
           Base64Alphabet[(b[1] % 4) * 16 + (b[2] \div 16) + 1],
           Base64Alphabet[(b[2] % 16) * 4 + 1], "=">>
    ELSE <<Base64Alphabet[(b[1] \div 4) + 1],
           Base64Alphabet[(b[1] % 4) * 16 + (b[2] \div 16) + 1],
           Base64Alphabet[(b[2] % 16) * 4 + (b[3] \div 64) + 1],
           Base64Alphabet[(b[3] % 64) + 1]>> \o btoa(SubSeq(b, 4, Len(b)))

(* ------------------------------------------------------- stored defaults *)
Sol == <<"s", "o", "l">>
LeetcodeSolutions ==
    <<"l", "e", "e", "t", "c", "o", "d", "e", "-",
      "s", "o", "l", "u", "t", "i", "o", "n", "s">>

DefaultRepoConfig ==
    [owner |-> "", repo |-> "", branch |-> "main", path |-> LeetcodeSolutions]

(* The configurations a save-repo-config message may carry.                *)
RepoConfigs ==
    {DefaultRepoConfig,
     [owner |-> "u", repo |-> "r", branch |-> "main", path |-> Sol]}

(* What the device-code endpoint answers for the request of handler h.     *)
DeviceData(h, e) ==
    [device_code |-> <<"dc", h>>, user_code |-> <<"uc", h>>,
     verification_uri |-> VerificationUri, interval |-> PollInterval,
     expires_in |-> e]

WithExpiresAt(data, at) ==
    [device_code |-> data.device_code, user_code |-> data.user_code,
     verification_uri |-> data.verification_uri, interval |-> data.interval,
     expires_in |-> data.expires_in, expires_at |-> at]

Truthy(n) == n # 0

(* ----------------------------------------------- githubDeviceCodeStorage *)
(* isActive with the expiry comparison turned round.                       *)
isActiveComparisonFlipped(i, t) ==
    IF i = Null THEN [result |-> FALSE, write |-> FALSE, value |-> Null]
    ELSE IF Truthy(i.expires_at) /\ i.expires_at < t
         THEN [result |-> TRUE, write |-> FALSE, value |-> Null]
    ELSE IF Truthy(i.expires_in) /\ t + i.expires_in * MsPerSecond > t
         THEN [result |-> TRUE, write |-> TRUE,
               value |-> WithExpiresAt(i, t + i.expires_in * MsPerSecond)]
    ELSE [result |-> FALSE, write |-> TRUE, value |-> Null]

(* isActive, evaluated on the record `i` it read, at time t.  The result   *)
(* is the boolean it resolves to and the write it issues first (if any).   *)
isActive(i, t) ==
    IF i = Null THEN [result |-> FALSE, write |-> FALSE, value |-> Null]
    ELSE IF Truthy(i.expires_at) /\ i.expires_at > t
         THEN [result |-> TRUE, write |-> FALSE, value |-> Null]
    ELSE IF Truthy(i.expires_in) /\ t + i.expires_in * MsPerSecond > t
         THEN [result |-> TRUE, write |-> TRUE,
               value |-> WithExpiresAt(i, t + i.expires_in * MsPerSecond)]
    ELSE [result |-> FALSE, write |-> TRUE, value |-> Null]

(* clear that leaves the record in place.                                  *)
clearKeepsRecord(stored) == stored

(* clear: deviceCodeStorage.set(null) *)
clear(stored) == Null

Init ==
    /\ authToken = ""
    /\ deviceCode = Null
    /\ repoConfig = DefaultRepoConfig
    /\ now = 0
    /\ pc = [h \in Handlers |-> "idle"]
    /\ info = [h \in Handlers |-> Null]
    /\ resp = [h \in Handlers |-> NoResp]
    /\ attempts = [h \in Handlers |-> 0]
    /\ pollResult = [h \in Handlers |-> "none"]
    /\ tokenGot = [h \in Handlers |-> ""]
    /\ lastAnswer = [h \in Handlers |-> "none"]
    /\ cmd = IdleCmd
    /\ watch = InitWatch

(* ------------------------------------------------------------ responses *)
(* The answer to a login that finds a flow in progress, as a failure. *)
RespExistingAsFailure(i) == [kind |-> "error", error |-> "FlowAlreadyActive"]

(* sendResponse({success: true, alreadyInProgress: true, ...}) *)
RespExisting(i) ==
    [kind |-> "success", alreadyInProgress |-> TRUE,
     deviceCode |-> i.user_code, verificationUrl |-> i.verification_uri]

RespStarted(data) ==
    [kind |-> "success", alreadyInProgress |-> FALSE,
     deviceCode |-> data.user_code, verificationUrl |-> data.verification_uri]

RespError(msg) == [kind |-> "error", error |-> msg]

RespOk == [kind |-> "success"]

(* A poll task is alive from the turn that launches it until its final     *)
(* clear has landed.                                                       *)
PollPcs == {"launch", "polling", "setToken", "clear"}
PollAlive(h) == pc[h] \in PollPcs

(* What a call of isActive finds in the store at time t.                   *)
Seen(i, t) ==
    IF i = Null THEN "absent"
    ELSE IF i.expires_at > t THEN "live"
    ELSE IF \E g \in Handlers : PollAlive(g) THEN "expired"
    ELSE "stale"

(* ----------------------------------------------------- handleGithubLogin *)
(* Where the handler goes once isActive has resolved to `active`: it reads *)
(* the record back, or calls startDeviceFlow, which issues the device-code *)
(* request at once.                                                        *)
AfterIsActive(active) == IF active THEN "getInfo" ELSE "fetchDevice"

(* A github-login message is dispatched: isActive() reads the record and   *)
(* evaluates it.  (Handlers are interchangeable; they are taken in order.) *)
LoginIsActive(h) ==
    /\ pc[h] = "idle"
    /\ \A g \in Handlers : g < h => pc[g] # "idle"
    /\ LET r == isActive(deviceCode, now) IN
        IF r.write
        THEN /\ pc' = [pc EXCEPT ![h] = "isActiveSet"]
             /\ info' = [info EXCEPT ![h] = r.value]
        ELSE /\ pc' = [pc EXCEPT ![h] = AfterIsActive(r.result)]
             /\ info' = info
    /\ UNCHANGED <<cmd, watch, authToken, deviceCode, repoConfig, now, resp, attempts,
                   pollResult, tokenGot, lastAnswer>>

(* The write isActive issued lands: the refreshed record, or null.         *)
LoginIsActiveSet(h) ==
    /\ pc[h] = "isActiveSet"
    /\ deviceCode' = info[h]
    /\ pc' = [pc EXCEPT ![h] = AfterIsActive(info[h] # Null)]
    /\ info' = [info EXCEPT ![h] = Null]
    /\ UNCHANGED <<cmd, watch, authToken, repoConfig, now, resp, attempts, pollResult,
                   tokenGot, lastAnswer>>

(* isActive was true: the record is read back and surfaced.  A record      *)
(* cleared in between makes deviceInfo.user_code throw; the try/catch      *)
(* answers with the failure.                                               *)
LoginGetInfo(h) ==
    /\ pc[h] = "getInfo"
    /\ resp' = [resp EXCEPT ![h] =
                   IF deviceCode = Null THEN RespError("TypeError")
                   ELSE RespExisting(deviceCode)]
    /\ pc' = [pc EXCEPT ![h] = "done"]
    /\ UNCHANGED <<cmd, watch, authToken, deviceCode, repoConfig, now, info, attempts,
                   pollResult, tokenGot, lastAnswer>>

(* startDeviceFlow: the device-code request is answered with data; the     *)
(* record to store gets expires_at = Date.now() + expires_in * 1000.       *)
DeviceFetchOk(h) ==
    /\ pc[h] = "fetchDevice"
    /\ \E e \in ExpiresInValues :
          info' = [info EXCEPT ![h] =
                      WithExpiresAt(DeviceData(h, e), now + e * MsPerSecond)]
    /\ pc' = [pc EXCEPT ![h] = "storeDevice"]
    /\ UNCHANGED <<cmd, watch, authToken, deviceCode, repoConfig, now, resp, attempts,
                   pollResult, tokenGot, lastAnswer>>

(* DeviceFetchFail that answers the failure and polls all the same.       *)
DeviceFetchFailStillPolls(h) ==
    /\ pc[h] = "fetchDevice"
    /\ \E msg \in {"Failed to initiate GitHub device flow", "Failed to fetch"} :
          resp' = [resp EXCEPT ![h] = RespError(msg)]
    /\ pc' = [pc EXCEPT ![h] = "launch"]
    /\ UNCHANGED <<cmd, watch, authToken, deviceCode, repoConfig, now, info, attempts,
                   pollResult, tokenGot, lastAnswer>>

(* startDeviceFlow: the request fails (transport, or !res.ok); the         *)
(* handler's catch answers {success:false, error}.                         *)
DeviceFetchFail(h) ==
    /\ pc[h] = "fetchDevice"
    /\ \E msg \in {"Failed to initiate GitHub device flow", "Failed to fetch"} :
          resp' = [resp EXCEPT ![h] = RespError(msg)]
    /\ pc' = [pc EXCEPT ![h] = "done"]
    /\ UNCHANGED <<cmd, watch, authToken, deviceCode, repoConfig, now, info, attempts,
                   pollResult, tokenGot, lastAnswer>>

(* DeviceStore with the response held back until the poll is over.         *)
DeviceStoreHoldsResponse(h) ==
    /\ pc[h] = "storeDevice"
    /\ deviceCode' = info[h]
    /\ pc' = [pc EXCEPT ![h] = "launch"]
    /\ info' = [info EXCEPT ![h] = Null]
    /\ UNCHANGED <<cmd, watch, authToken, repoConfig, now, resp, attempts, pollResult,
                   tokenGot, lastAnswer>>

(* startDeviceFlow: githubDeviceCodeStorage.set(deviceInfo) lands and      *)
(* startDeviceFlow returns `data`; the handler calls sendResponse.  Its    *)
(* next statement calls pollForAccessToken without awaiting it.            *)
DeviceStore(h) ==
    /\ pc[h] = "storeDevice"
    /\ deviceCode' = info[h]
    /\ resp' = [resp EXCEPT ![h] = RespStarted(info[h])]
    /\ pc' = [pc EXCEPT ![h] = "launch"]
    /\ info' = [info EXCEPT ![h] = Null]
    /\ UNCHANGED <<cmd, watch, authToken, repoConfig, now, attempts, pollResult, tokenGot, lastAnswer>>

(* --------------------------------------------------- pollForAccessToken *)
(* What the token endpoint may do with one request.                        *)
TokenResponses ==
    {[kind |-> "transport"], [kind |-> "notOk"], [kind |-> "pending"],
     [kind |-> "error"]} \cup {[kind |-> "token", access_token |-> t] : t \in Tokens}

NonTerminal(r) == r.kind \in {"notOk", "pending"}

(* PollLoop with the cap off by one.                                       *)
PollLoopOffByOne(att) ==
    IF att <= maxAttempts
    THEN [attempts |-> att + 1, settled |-> "none"]
    ELSE [attempts |-> att, settled |-> "timeout"]

(* Back at the loop head after a sleep: the next request, or the timeout.  *)
PollLoop(att) ==
    IF att < maxAttempts
    THEN [attempts |-> att + 1, settled |-> "none"]
    ELSE [attempts |-> att, settled |-> "timeout"]

(* pollForAccessToken with a catch that sleeps and retries.                *)
pollRetriesTransport(att, r) ==
    IF r.kind \in {"transport", "notOk", "pending"} THEN PollLoop(att)
    ELSE IF r.kind = "token" THEN [attempts |-> att, settled |-> "token"]
    ELSE [attempts |-> att, settled |-> "rejected"]

(* One turn of the loop body on response r, with `att` requests issued.    *)
pollForAccessToken(att, r) ==
    IF r.kind = "transport" THEN [attempts |-> att, settled |-> "transport"]
    ELSE IF r.kind = "notOk" THEN PollLoop(att)
    ELSE IF r.kind = "token" THEN [attempts |-> att, settled |-> "token"]
    ELSE IF r.kind = "pending" THEN PollLoop(att)
    ELSE [attempts |-> att, settled |-> "rejected"]

(* AfterPoll with the token write issued on rejection as well.             *)
AfterPollAlwaysWrites(settled) ==
    IF settled = "none" THEN "polling" ELSE "setToken"

(* Which storage call the handler's .then/.catch issues when the poll      *)
(* promise settles.                                                        *)
AfterPoll(settled) ==
    IF settled = "none" THEN "polling"
    ELSE IF settled = "token" THEN "setToken"
    ELSE "clear"

(* pollForAccessToken is called: attempts++ and the first request go out.  *)
PollLaunch(h) ==
    /\ pc[h] = "launch"
    /\ attempts' = [attempts EXCEPT ![h] = PollLoop(attempts[h]).attempts]
    /\ pc' = [pc EXCEPT ![h] = "polling"]
    /\ UNCHANGED <<cmd, watch, authToken, deviceCode, repoConfig, now, info, resp,
                   pollResult, tokenGot, lastAnswer>>

(* PollResponse that looks at the session record and gives up once it is   *)
(* gone.                                                                   *)
PollResponseStopsWhenCleared(h, r, cap) ==
    /\ pc[h] = "polling"
    /\ NonTerminal(r) => attempts[h] <= cap
    /\ LET p == IF deviceCode = Null
                THEN [attempts |-> attempts[h], settled |-> "rejected"]
                ELSE pollForAccessToken(attempts[h], r) IN
        /\ attempts' = [attempts EXCEPT ![h] = p.attempts]
        /\ pollResult' = [pollResult EXCEPT ![h] = p.settled]
        /\ tokenGot' = [tokenGot EXCEPT ![h] =
                           IF p.settled = "token" THEN r.access_token ELSE @]
        /\ pc' = [pc EXCEPT ![h] = AfterPoll(p.settled)]
        /\ lastAnswer' = [lastAnswer EXCEPT ![h] = r.kind]
    /\ UNCHANGED <<cmd, watch, authToken, deviceCode, repoConfig, now, info, resp>>

(* The request in flight is answered.  `cap` bounds how many non-terminal  *)
(* answers the endpoint gives one poll task.                               *)
PollResponse(h, r, cap) ==
    /\ pc[h] = "polling"
    /\ NonTerminal(r) => attempts[h] <= cap
    /\ LET p == pollForAccessToken(attempts[h], r) IN
        /\ attempts' = [attempts EXCEPT ![h] = p.attempts]
        /\ pollResult' = [pollResult EXCEPT ![h] = p.settled]
        /\ tokenGot' = [tokenGot EXCEPT ![h] =
                           IF p.settled = "token" THEN r.access_token ELSE @]
        /\ pc' = [pc EXCEPT ![h] = AfterPoll(p.settled)]
        /\ lastAnswer' = [lastAnswer EXCEPT ![h] = r.kind]
    /\ UNCHANGED <<cmd, watch, authToken, deviceCode, repoConfig, now, info, resp>>

(* PollSetToken that goes on to the clear without the write.               *)
PollSetTokenSkipsWrite(h) ==
    /\ pc[h] = "setToken"
    /\ pc' = [pc EXCEPT ![h] = "clear"]
    /\ UNCHANGED <<cmd, watch, authToken, deviceCode, repoConfig, now, info, resp, attempts,
                   pollResult, tokenGot, lastAnswer>>

(* PollSetToken that clears the session together with the write.          *)
PollSetTokenClearsAtOnce(h) ==
    /\ pc[h] = "setToken"
    /\ authToken' = tokenGot[h]
    /\ deviceCode' = clear(deviceCode)
    /\ pc' = [pc EXCEPT ![h] = "clear"]
    /\ UNCHANGED <<cmd, watch, repoConfig, now, info, resp, attempts,
                   pollResult, tokenGot, lastAnswer>>

(* .then(token => githubAuthStorage.set(token)): the write lands, and its  *)
(* continuation issues githubDeviceCodeStorage.clear().                    *)
PollSetToken(h) ==
    /\ pc[h] = "setToken"
    /\ authToken' = tokenGot[h]
    /\ pc' = [pc EXCEPT ![h] = "clear"]
    /\ UNCHANGED <<cmd, watch, deviceCode, repoConfig, now, info, resp, attempts,
                   pollResult, tokenGot, lastAnswer>>

(* githubDeviceCodeStorage.clear() of the .then or the .catch lands; the   *)
(* task and its locals are gone.                                           *)
PollClear(h) ==
    /\ pc[h] = "clear"
    /\ deviceCode' = clear(deviceCode)
    /\ pc' = [pc EXCEPT ![h] = "done"]
    /\ attempts' = [attempts EXCEPT ![h] = 0]
    /\ tokenGot' = [tokenGot EXCEPT ![h] = ""]
    /\ lastAnswer' = [lastAnswer EXCEPT ![h] = "none"]
    /\ UNCHANGED <<cmd, watch, authToken, repoConfig, now, info, resp, pollResult>>

(* ------------------------------------------------ handleCancelDeviceFlow *)
(* A cancel that drops the Credential along with the session. *)
CancelFlowSignsOut(stored) ==
    [authToken |-> "", deviceCode |-> clear(stored.deviceCode),
     repoConfig |-> stored.repoConfig, response |-> RespOk]

(* clear() lands, then sendResponse({success: true}).  The result is the   *)
(* three stored records after it and the response sent.                    *)
CancelFlow(stored) ==
    [authToken |-> stored.authToken, deviceCode |-> clear(stored.deviceCode),
     repoConfig |-> stored.repoConfig, response |-> RespOk]

Stored == [authToken |-> authToken, deviceCode |-> deviceCode,
           repoConfig |-> repoConfig]

handleCancelDeviceFlow ==
    /\ authToken' = CancelFlow(Stored).authToken
    /\ deviceCode' = CancelFlow(Stored).deviceCode
    /\ repoConfig' = CancelFlow(Stored).repoConfig
    /\ UNCHANGED <<cmd, watch, now, pc, info, resp, attempts, pollResult, tokenGot, lastAnswer>>

(* --------------------------------------------------- handleSaveRepoConfig *)
(* githubRepoStorage.set(message.config) lands.                            *)
handleSaveRepoConfig ==
    /\ \E config \in RepoConfigs : repoConfig' = config
    /\ UNCHANGED <<cmd, watch, authToken, deviceCode, now, pc, info, resp, attempts,
                   pollResult, tokenGot, lastAnswer>>

(* ------------------------------------------------------------------ init *)
(* The background script is loaded anew: every task in memory is gone, the *)
(* stored records stay.                                                    *)
init ==
    /\ \E h \in Handlers : pc[h] # "idle"
    /\ pc' = [h \in Handlers |-> "idle"]
    /\ info' = [h \in Handlers |-> Null]
    /\ resp' = [h \in Handlers |-> NoResp]
    /\ attempts' = [h \in Handlers |-> 0]
    /\ pollResult' = [h \in Handlers |-> "none"]
    /\ tokenGot' = [h \in Handlers |-> ""]
    /\ lastAnswer' = [h \in Handlers |-> "none"]
    /\ cmd' = IdleCmd
    /\ UNCHANGED <<watch, authToken, deviceCode, repoConfig, now>>

Tick ==
    /\ now < MaxNow * MsPerSecond
    /\ now' = now + MsPerSecond
    /\ UNCHANGED <<cmd, watch, authToken, deviceCode, repoConfig, pc, info, resp, attempts,
                   pollResult, tokenGot, lastAnswer>>

(* ============================================== the command surface ==== *)
loginVars == <<pc, info, resp, attempts, pollResult, tokenGot, lastAnswer>>

(* A storage call either lands or rejects. *)
StoreOutcomes == {"ok", "reject"}
StoreAnswer(o) == [kind |-> "store", outcome |-> o]
StoreError == <<"storage error">>

(* sendResponse(r) of a handler. *)
sendResponse(c, r) == [c EXCEPT !.resp = r, !.sent = @ + 1]

(* The handler's promise chain has run to its end; its locals are gone. *)
Finish(c) == [c EXCEPT !.pc = "done", !.arg = Null, !.token = "", !.info = Null]

(* A failure response that leaves the success field out. *)
FailureWithoutSuccess(msg) == [error |-> msg]

(* { success: false, error } *)
Failure(msg) == [success |-> FALSE, error |-> msg]

(* `handlers`: the first suspension point of each command's handler.  An   *)
(* action that is not in the table gets no handler and no response.        *)
CommandNames ==
    {"check-device-flow", "cancel-device-flow", "check-auth-status",
     "github-logout", "open-verification-page", "fetch-github-repos",
     "save-repo-config", "update-repo-path", "submit-leetcode-solution"}

handlers ==
    [n \in CommandNames |->
        CASE n = "check-device-flow" -> "cdf.isActive"
          [] n = "cancel-device-flow" -> "cancel.clear"
          [] n = "check-auth-status" -> "auth.get"
          [] n = "github-logout" -> "logout.set"
          [] n = "open-verification-page" -> "open.get"
          [] n = "fetch-github-repos" -> "repos.get"
          [] n = "save-repo-config" -> "save.set"
          [] n = "update-repo-path" -> "path.set"
          [] n = "submit-leetcode-solution" -> "commit.getToken"]

(* ------------------------------------------------- handleCheckAuthStatus *)
(* What the identity endpoint may do with a request. *)
IdentityAnswers ==
    {[kind |-> "status", status |-> n] : n \in {200, 204, 401}}
        \cup {[kind |-> "transport"]}

IdentityRequest(token) ==
    [method |-> "GET", url |-> "https://api.github.com/user", token |-> token]

(* res.ok *)
ResOk(status) == status >= 200 /\ status <= 299

(* validateGithubToken that accepts every successful status. *)
validateAcceptsAnyOk(a) == a.kind = "status" /\ ResOk(a.status)

(* validateGithubToken on the answer to its request: res.status === 200,   *)
(* false when fetch throws.                                                *)
validateGithubToken(a) == a.kind = "status" /\ a.status = 200

(* isAuthenticated: githubAuthStorage.get() resolves.  No token: false,    *)
(* and the handler answers; else validateGithubToken sends its request.    *)
AuthGet ==
    /\ cmd.pc = "auth.get"
    /\ \E o \in StoreOutcomes :
        LET c == [cmd EXCEPT !.answer = StoreAnswer(o)] IN
        cmd' = IF o = "reject"
               THEN Finish(sendResponse(c, [isLoggedIn |-> FALSE, error |-> StoreError]))
               ELSE IF authToken = ""
               THEN Finish(sendResponse([c EXCEPT !.auth = "false"],
                                        [isLoggedIn |-> FALSE]))
               ELSE [c EXCEPT !.token = authToken,
                              !.requests = Append(@, IdentityRequest(authToken)),
                              !.pc = "auth.validate"]
    /\ UNCHANGED <<authToken, deviceCode, repoConfig, now, loginVars, watch>>

(* validateGithubToken's request is answered; isAuthenticated resolves. *)
AuthValidate ==
    /\ cmd.pc = "auth.validate"
    /\ \E a \in IdentityAnswers :
        LET valid == validateGithubToken(a)
            c == [cmd EXCEPT !.answer = a,
                             !.auth = IF valid THEN "true" ELSE "false"] IN
        cmd' = IF valid THEN [c EXCEPT !.pc = "auth.get2"]
               ELSE Finish(sendResponse(c, [isLoggedIn |-> FALSE]))
    /\ UNCHANGED <<authToken, deviceCode, repoConfig, now, loginVars, watch>>

(* isLoggedIn: the token is read again and getGithubUserInfo sends its     *)
(* request.                                                                *)
AuthGet2 ==
    /\ cmd.pc = "auth.get2"
    /\ \E o \in StoreOutcomes :
        LET c == [cmd EXCEPT !.answer = StoreAnswer(o)] IN
        cmd' = IF o = "reject"
               THEN Finish(sendResponse(c, [isLoggedIn |-> FALSE, error |-> StoreError]))
               ELSE [c EXCEPT !.token = authToken,
                              !.requests = Append(@, IdentityRequest(authToken)),
                              !.pc = "auth.user"]
    /\ UNCHANGED <<authToken, deviceCode, repoConfig, now, loginVars, watch>>

(* getGithubUserInfo's request is answered. *)
AuthUser ==
    /\ cmd.pc = "auth.user"
    /\ \E a \in IdentityAnswers :
        LET c == [cmd EXCEPT !.answer = a] IN
        cmd' = IF a.kind = "transport"
               THEN Finish(sendResponse(c, [isLoggedIn |-> FALSE,
                                            error |-> <<"Failed to fetch">>]))
               ELSE IF ~ResOk(a.status)
               THEN Finish(sendResponse(c, [isLoggedIn |-> FALSE,
                             error |-> <<"Failed to fetch user information">>]))
               ELSE Finish(sendResponse(c, [isLoggedIn |-> TRUE,
                                            user |-> [login |-> "octocat"]]))
    /\ UNCHANGED <<authToken, deviceCode, repoConfig, now, loginVars, watch>>

(* ------------------------------------------------ handleCheckDeviceFlow *)
InProgress(i) ==
    [inProgress |-> TRUE, deviceCode |-> i.user_code,
     verificationUrl |-> i.verification_uri]

(* The handler once isActive has resolved to `active`. *)
CheckFlowAfterIsActive(c, active) ==
    IF active THEN [c EXCEPT !.pc = "cdf.get"]
    ELSE Finish(sendResponse(c, [inProgress |-> FALSE]))

(* isActive(): the record is read and evaluated. *)
CheckFlowIsActive ==
    /\ cmd.pc = "cdf.isActive"
    /\ \E o \in StoreOutcomes :
        LET c == [cmd EXCEPT !.answer = StoreAnswer(o)]
            r == isActive(deviceCode, now) IN
        cmd' = IF o = "reject"
               THEN Finish(sendResponse(c, [inProgress |-> FALSE, error |-> StoreError]))
               ELSE IF r.write
               THEN [c EXCEPT !.pc = "cdf.set", !.info = r.value]
               ELSE CheckFlowAfterIsActive(c, r.result)
    /\ UNCHANGED <<authToken, deviceCode, repoConfig, now, loginVars, watch>>

(* The write isActive issued lands (the refreshed record, or null), or     *)
(* rejects.                                                                *)
CheckFlowIsActiveSet ==
    /\ cmd.pc = "cdf.set"
    /\ \E o \in StoreOutcomes :
        LET c == [cmd EXCEPT !.answer = StoreAnswer(o), !.info = Null] IN
        IF o = "reject"
        THEN /\ cmd' = Finish(sendResponse(c, [inProgress |-> FALSE,
                                               error |-> StoreError]))
             /\ deviceCode' = deviceCode
        ELSE /\ cmd' = CheckFlowAfterIsActive(c, cmd.info # Null)
             /\ deviceCode' = cmd.info
    /\ UNCHANGED <<authToken, repoConfig, now, loginVars, watch>>

(* The record is read back; a record cleared in between makes              *)
(* deviceInfo.user_code throw, and the .catch answers.                     *)
CheckFlowGet ==
    /\ cmd.pc = "cdf.get"
    /\ \E o \in StoreOutcomes :
        LET c == [cmd EXCEPT !.answer = StoreAnswer(o)] IN
        cmd' = IF o = "reject"
               THEN Finish(sendResponse(c, [inProgress |-> FALSE, error |-> StoreError]))
               ELSE IF deviceCode = Null
               THEN Finish(sendResponse(c, [inProgress |-> FALSE,
                                            error |-> <<"TypeError">>]))
               ELSE Finish(sendResponse(c, InProgress(deviceCode)))
    /\ UNCHANGED <<authToken, deviceCode, repoConfig, now, loginVars, watch>>

(* ------------------------------------- handleCancelDeviceFlow, answered *)
CancelClear ==
    /\ cmd.pc = "cancel.clear"
    /\ \E o \in StoreOutcomes :
        LET c == [cmd EXCEPT !.answer = StoreAnswer(o)] IN
        IF o = "reject"
        THEN /\ cmd' = Finish(sendResponse(c, Failure(StoreError)))
             /\ deviceCode' = deviceCode
        ELSE /\ cmd' = Finish(sendResponse(c, [success |-> TRUE]))
             /\ deviceCode' = clear(deviceCode)
    /\ UNCHANGED <<authToken, repoConfig, now, loginVars, watch>>

(* ----------------------------------------------------------- handleLogout *)
(* A signOut that leaves the token where it is. *)
signOutKeepsToken(token) == token

(* signOut: githubAuthStorage.clear() is authTokenStorage.set('').         *)
signOut(token) == ""

LogoutSet ==
    /\ cmd.pc = "logout.set"
    /\ \E o \in StoreOutcomes :
        LET c == [cmd EXCEPT !.answer = StoreAnswer(o)] IN
        IF o = "reject"
        THEN /\ cmd' = Finish(sendResponse(c, Failure(StoreError)))
             /\ authToken' = authToken
        ELSE /\ cmd' = Finish(sendResponse(c, [success |-> TRUE]))
             /\ authToken' = signOut(authToken)
    /\ UNCHANGED <<deviceCode, repoConfig, now, loginVars, watch>>

(* ----------------------------------------------- handleOpenVerificationPage *)
OpenGet ==
    /\ cmd.pc = "open.get"
    /\ \E o \in StoreOutcomes :
        LET c == [cmd EXCEPT !.answer = StoreAnswer(o)] IN
        cmd' = IF o = "reject"
               THEN Finish(sendResponse(c, Failure(StoreError)))
               ELSE IF deviceCode # Null /\ deviceCode.verification_uri # ""
               THEN Finish(sendResponse(
                        [c EXCEPT !.requests =
                            Append(@, [method |-> "tabs.create",
                                       url |-> deviceCode.verification_uri])],
                        [success |-> TRUE]))
               ELSE Finish(sendResponse(c, Failure(<<"No active device flow found">>)))
    /\ UNCHANGED <<authToken, deviceCode, repoConfig, now, loginVars, watch>>

(* --------------------------------------------------- handleSaveRepoConfig *)
(* An updatePath that builds the record from the defaults. *)
updatePathFromDefault(config, path) == [DefaultRepoConfig EXCEPT !.path = path]

(* updatePath: set(config => ({...config, path})), applied to the value    *)
(* stored when the write lands.                                            *)
updatePath(config, path) == [config EXCEPT !.path = path]

(* set(value) of the persistent store: the record holds the value given,   *)
(* and get() returns what the record holds.                                *)
StorageSet(stored, value) == value

(* SaveSet that takes over only the path of the configuration sent. *)
SaveSetMergesPath ==
    /\ cmd.pc = "save.set"
    /\ \E o \in StoreOutcomes :
        LET c == [cmd EXCEPT !.answer = StoreAnswer(o)] IN
        IF o = "reject"
        THEN /\ cmd' = Finish(sendResponse(c, Failure(StoreError)))
             /\ repoConfig' = repoConfig
        ELSE /\ cmd' = Finish(sendResponse(c, [success |-> TRUE]))
             /\ repoConfig' = StorageSet(repoConfig,
                                  updatePath(repoConfig, cmd.arg.config.path))
    /\ UNCHANGED <<authToken, deviceCode, now, loginVars, watch>>

(* githubRepoStorage.set(message.config), then the response.               *)
SaveSet ==
    /\ cmd.pc = "save.set"
    /\ \E o \in StoreOutcomes :
        LET c == [cmd EXCEPT !.answer = StoreAnswer(o)] IN
        IF o = "reject"
        THEN /\ cmd' = Finish(sendResponse(c, Failure(StoreError)))
             /\ repoConfig' = repoConfig
        ELSE /\ cmd' = Finish(sendResponse(c, [success |-> TRUE]))
             /\ repoConfig' = StorageSet(repoConfig, cmd.arg.config)
    /\ UNCHANGED <<authToken, deviceCode, now, loginVars, watch>>

(* --------------------------------------------------- handleUpdateRepoPath *)

PathSet ==
    /\ cmd.pc = "path.set"
    /\ \E o \in StoreOutcomes :
        LET c == [cmd EXCEPT !.answer = StoreAnswer(o)] IN
        IF o = "reject"
        THEN /\ cmd' = Finish(sendResponse(c, Failure(StoreError)))
             /\ repoConfig' = repoConfig
        ELSE /\ cmd' = Finish(sendResponse(c, [success |-> TRUE]))
             /\ repoConfig' = StorageSet(repoConfig, updatePath(repoConfig, cmd.arg.path))
    /\ UNCHANGED <<authToken, deviceCode, now, loginVars, watch>>

(* ------------------------------------------------ handleFetchRepositories *)
RepoLists == {<<>>, <<[name |-> "r", full_name |-> "u/r"]>>}

ReposAnswers ==
    {[kind |-> "status", status |-> 200, repos |-> l] : l \in RepoLists}
        \cup {[kind |-> "status", status |-> 401], [kind |-> "transport"]}

ReposRequest(token) ==
    [method |-> "GET",
     url |-> "https://api.github.com/user/repos?sort=updated&per_page=100",
     token |-> token]

(* ReposGet whose first .then does not stop after answering. *)
ReposGetFallsThrough ==
    /\ cmd.pc = "repos.get"
    /\ \E o \in StoreOutcomes :
        LET c == [cmd EXCEPT !.answer = StoreAnswer(o)] IN
        cmd' = IF o = "reject"
               THEN Finish(sendResponse(c, Failure(StoreError)))
               ELSE IF authToken = ""
               THEN [sendResponse(c, Failure(<<"Not authenticated with GitHub">>))
                        EXCEPT !.pc = "repos.get2"]
               ELSE [c EXCEPT !.pc = "repos.get2"]
    /\ UNCHANGED <<authToken, deviceCode, repoConfig, now, loginVars, watch>>

(* githubAuthStorage.get() resolves: no token is answered at once and the  *)
(* chain passes null on, so the second .then sends nothing; else           *)
(* fetchUserRepositories is called, which reads the token itself.          *)
ReposGet ==
    /\ cmd.pc = "repos.get"
    /\ \E o \in StoreOutcomes :
        LET c == [cmd EXCEPT !.answer = StoreAnswer(o)] IN
        cmd' = IF o = "reject"
               THEN Finish(sendResponse(c, Failure(StoreError)))
               ELSE IF authToken = ""
               THEN Finish(sendResponse(c, Failure(<<"Not authenticated with GitHub">>)))
               ELSE [c EXCEPT !.pc = "repos.get2"]
    /\ UNCHANGED <<authToken, deviceCode, repoConfig, now, loginVars, watch>>

(* fetchUserRepositories: its own token read; no token throws, else the    *)
(* request goes out.                                                       *)
ReposGet2 ==
    /\ cmd.pc = "repos.get2"
    /\ \E o \in StoreOutcomes :
        LET c == [cmd EXCEPT !.answer = StoreAnswer(o)] IN
        cmd' = IF o = "reject"
               THEN Finish(sendResponse(c, Failure(StoreError)))
               ELSE IF authToken = ""
               THEN Finish(sendResponse(c, Failure(<<"Not authenticated with GitHub">>)))
               ELSE [c EXCEPT !.token = authToken,
                              !.requests = Append(@, ReposRequest(authToken)),
                              !.pc = "repos.fetch"]
    /\ UNCHANGED <<authToken, deviceCode, repoConfig, now, loginVars, watch>>

(* The repository list request is answered. *)
ReposFetch ==
    /\ cmd.pc = "repos.fetch"
    /\ \E a \in ReposAnswers :
        LET c == [cmd EXCEPT !.answer = a] IN
        cmd' = IF a.kind = "transport"
               THEN Finish(sendResponse(c, Failure(<<"Failed to fetch">>)))
               ELSE IF ~ResOk(a.status)
               THEN Finish(sendResponse(c,
                        Failure(<<"Failed to fetch repositories: ">> \o DecimalString(a.status))))
               ELSE Finish(sendResponse(c, [success |-> TRUE, repositories |-> a.repos]))
    /\ UNCHANGED <<authToken, deviceCode, repoConfig, now, loginVars, watch>>

(* ------------------------------------------- saveSolutionToGitHub (page) *)
(* languageToExtension *)
languageToExtension ==
    [l \in {"c", "cpp", "c++", "java", "python", "python3", "csharp", "c#",
            "javascript", "typescript", "php", "swift", "kotlin", "dart", "go",
            "ruby", "scala", "rust", "racket", "erlang", "elixir", "unknown"} |->
        CASE l = "c" -> <<"c">>
          [] l \in {"cpp", "c++"} -> <<"c", "p", "p">>
          [] l = "java" -> <<"j", "a", "v", "a">>
          [] l \in {"python", "python3"} -> <<"p", "y">>
          [] l \in {"csharp", "c#"} -> <<"c", "s">>
          [] l = "javascript" -> <<"j", "s">>
          [] l = "typescript" -> <<"t", "s">>
          [] l = "php" -> <<"p", "h", "p">>
          [] l = "swift" -> <<"s", "w", "i", "f", "t">>
          [] l = "kotlin" -> <<"k", "t">>
          [] l = "dart" -> <<"d", "a", "r", "t">>
          [] l = "go" -> <<"g", "o">>
          [] l = "ruby" -> <<"r", "b">>
          [] l = "scala" -> <<"s", "c", "a", "l", "a">>
          [] l = "rust" -> <<"r", "s">>
          [] l = "racket" -> <<"r", "k", "t">>
          [] l = "erlang" -> <<"e", "r", "l">>
          [] l = "elixir" -> <<"e", "x">>
          [] l = "unknown" -> <<"t", "x", "t">>]

(* Language labels the extractor may hand over, and their lower case.      *)
LanguageLabels == {"python", "Python3", "C++", "brainfuck"}
toLowerCase(l) ==
    CASE l = "Python3" -> "python3"
      [] l = "C++" -> "c++"
      [] l = "C#" -> "c#"
      [] OTHER -> l

Txt == <<"t", "x", "t">>

(* A saveSolutionToGitHub that looks the label up as it is written. *)
saveSolutionCaseSensitive(problemId, problemName, language, code) ==
    [problemId |-> problemId, problemName |-> problemName, language |-> language,
     extension |-> IF language \in DOMAIN languageToExtension
                   THEN languageToExtension[language] ELSE Txt,
     code |-> code]

(* saveSolutionToGitHub: the message data sent to the background.          *)
saveSolutionToGitHub(problemId, problemName, language, code) ==
    [problemId |-> problemId, problemName |-> problemName, language |-> language,
     extension |-> IF toLowerCase(language) \in DOMAIN languageToExtension
                   THEN languageToExtension[toLowerCase(language)] ELSE Txt,
     code |-> code]

TwoSum == <<"t", "w", "o", "-", "s", "u", "m">>
SourceCodes == {<<"x", "=", "1">>, <<"x", "e'">>, <<>>}

(* The submit-leetcode-solution messages the content script may send. *)
SolutionMessages ==
    {saveSolutionToGitHub(TwoSum, "Two Sum", l, c) :
        l \in LanguageLabels, c \in SourceCodes}

(* ------------------------------------------------ commitSolutionToGithub *)
(* Repository targets a save-repo-config message may carry or the store    *)
(* may hold.                                                               *)
Targets ==
    RepoConfigs \cup
    {[owner |-> "u", repo |-> "r", branch |-> "main", path |-> Sol \o <<"/">>],
     [owner |-> "u", repo |-> "r", branch |-> "", path |-> <<>>],
     [owner |-> "u", repo |-> "r", branch |-> "dev", path |-> Sol \o <<"/", "/">>],
     [owner |-> "", repo |-> "r", branch |-> "main", path |-> Sol],
     [owner |-> "u", repo |-> "", branch |-> "main", path |-> Sol]}

(* The check that also lets a missing token through. *)
MissingConfigurationIgnoresToken(token, rc) == rc.owner = "" \/ rc.repo = ""

(* !token || !repoConfig || !repoConfig.owner || !repoConfig.repo *)
MissingConfiguration(token, rc) == token = "" \/ rc.owner = "" \/ rc.repo = ""

(* `${data.problemId}_${timestamp}.${extension}` *)
FileName(data, timestamp) ==
    data.problemId \o <<"_">> \o DecimalString(timestamp) \o <<".">>
        \o (IF data.extension = <<>> THEN Txt ELSE data.extension)

(* FilePath that joins with a separator whatever the path is. *)
FilePathAlwaysJoins(path, fileName) == path \o <<"/">> \o fileName

(* The file path under the configured path. *)
FilePath(path, fileName) ==
    IF path # <<>>
    THEN (IF endsWith(path, "/") THEN path ELSE path \o <<"/">>) \o fileName
    ELSE fileName

PutRequest(token, rc, data, timestamp) ==
    [method |-> "PUT", owner |-> rc.owner, repo |-> rc.repo,
     filePath |-> FilePath(rc.path, FileName(data, timestamp)),
     token |-> token,
     message |-> [problemId |-> data.problemId, problemName |-> data.problemName,
                  language |-> data.language],
     content |-> btoa(Utf8(data.code)),
     branch |-> IF rc.branch = "" THEN "main" ELSE rc.branch]

(* What the content endpoint may do with the PUT. *)
PutAnswers ==
    {[kind |-> "status", status |-> 201, json |-> TRUE,
      body |-> [html_url |-> "https://github.com/u/r/blob/main/f"]],
     [kind |-> "status", status |-> 401, json |-> TRUE,
      body |-> [message |-> "Bad credentials"]],
     [kind |-> "status", status |-> 422, json |-> TRUE,
      body |-> [message |-> "Invalid request"]],
     [kind |-> "status", status |-> 502, json |-> FALSE],
     [kind |-> "transport"]}

(* The response handleSubmitLeetCodeSolution sends for the answer to the   *)
(* PUT: the parsed body, or the message of the error commitSolutionToGithub *)
(* threw.                                                                  *)
PutOutcome(a) ==
    IF a.kind = "transport" THEN Failure(<<"Failed to fetch">>)
    ELSE IF ~a.json THEN Failure(<<"Unexpected token">>)
    ELSE IF ~ResOk(a.status) THEN Failure(<<"GitHub API error: ", a.body.message>>)
    ELSE [success |-> TRUE, result |-> a.body]

(* githubAuthStorage.get() resolves. *)
CommitGetToken ==
    /\ cmd.pc = "commit.getToken"
    /\ \E o \in StoreOutcomes :
        LET c == [cmd EXCEPT !.answer = StoreAnswer(o)] IN
        cmd' = IF o = "reject"
               THEN Finish(sendResponse(c, Failure(StoreError)))
               ELSE [c EXCEPT !.token = authToken, !.pc = "commit.getRepo"]
    /\ UNCHANGED <<authToken, deviceCode, repoConfig, now, loginVars, watch>>

(* githubRepoStorage.get() resolves: the configuration check, then the     *)
(* PUT goes out.                                                           *)
CommitGetRepo ==
    /\ cmd.pc = "commit.getRepo"
    /\ \E o \in StoreOutcomes :
        LET c == [cmd EXCEPT !.answer = StoreAnswer(o)] IN
        cmd' = IF o = "reject"
               THEN Finish(sendResponse(c, Failure(StoreError)))
               ELSE IF MissingConfiguration(cmd.token, repoConfig)
               THEN Finish(sendResponse(c, Failure(<<"Missing GitHub configuration">>)))
               ELSE [c EXCEPT !.info = repoConfig,
                              !.requests = Append(@,
                                  PutRequest(cmd.token, repoConfig, cmd.arg.data, now)),
                              !.pc = "commit.put"]
    /\ UNCHANGED <<authToken, deviceCode, repoConfig, now, loginVars, watch>>

(* CommitPut that sends the PUT once more after a non-success status. *)
CommitPutRetries ==
    /\ cmd.pc = "commit.put"
    /\ \E a \in PutAnswers :
        LET c == [cmd EXCEPT !.answer = a] IN
        cmd' = IF a.kind = "status" /\ ~ResOk(a.status) /\ Len(cmd.requests) < 2
               THEN [c EXCEPT !.requests = Append(@, cmd.requests[1])]
               ELSE Finish(sendResponse(c, PutOutcome(a)))
    /\ UNCHANGED <<authToken, deviceCode, repoConfig, now, loginVars, watch>>

(* The PUT is answered and the handler responds. *)
CommitPut ==
    /\ cmd.pc = "commit.put"
    /\ \E a \in PutAnswers :
        cmd' = Finish(sendResponse([cmd EXCEPT !.answer = a], PutOutcome(a)))
    /\ UNCHANGED <<authToken, deviceCode, repoConfig, now, loginVars, watch>>

(* --------------------------------------------- github-login, store fails *)
(* isActive() rejects, at its read or at its write: the outer .catch       *)
(* answers.                                                                *)
LoginIsActiveReject(h) ==
    /\ \/ pc[h] = "idle" /\ \A g \in Handlers : g < h => pc[g] # "idle"
       \/ pc[h] = "isActiveSet"
    /\ resp' = [resp EXCEPT ![h] = RespError("Internal error checking auth status")]
    /\ pc' = [pc EXCEPT ![h] = "done"]
    /\ info' = [info EXCEPT ![h] = Null]
    /\ UNCHANGED <<cmd, watch, authToken, deviceCode, repoConfig, now, attempts,
                   pollResult, tokenGot, lastAnswer>>

(* The read-back of the record rejects: the try/catch answers. *)
LoginGetInfoReject(h) ==
    /\ pc[h] = "getInfo"
    /\ resp' = [resp EXCEPT ![h] = RespError("storage error")]
    /\ pc' = [pc EXCEPT ![h] = "done"]
    /\ UNCHANGED <<cmd, watch, authToken, deviceCode, repoConfig, now, info,
                   attempts, pollResult, tokenGot, lastAnswer>>

(* startDeviceFlow: githubDeviceCodeStorage.set rejects; the error is      *)
(* rethrown and the handler's try/catch answers.  No poll is started.      *)
DeviceStoreReject(h) ==
    /\ pc[h] = "storeDevice"
    /\ resp' = [resp EXCEPT ![h] = RespError("storage error")]
    /\ pc' = [pc EXCEPT ![h] = "done"]
    /\ info' = [info EXCEPT ![h] = Null]
    /\ UNCHANGED <<cmd, watch, authToken, deviceCode, repoConfig, now, attempts,
                   pollResult, tokenGot, lastAnswer>>

(* ----------------------------------------------------- the message listener *)
NewPaths == {<<>>, Sol \o <<"/">>}

(* The messages a command may be dispatched with. *)
CommandArgs(n) ==
    CASE n = "save-repo-config" -> {[config |-> t] : t \in Targets}
      [] n = "update-repo-path" -> {[path |-> p] : p \in NewPaths}
      [] n = "submit-leetcode-solution" -> {[data |-> d] : d \in SolutionMessages}
      [] OTHER -> {Null}

(* chrome.runtime.onMessage: the handler of message.action is called and   *)
(* issues its first storage call.                                          *)
onMessage ==
    /\ cmd.pc \in {"idle", "done"}
    /\ pc[1] = "idle"
    /\ \E n \in CommandNames : \E a \in CommandArgs(n) :
          cmd' = [IdleCmd EXCEPT !.name = n, !.pc = handlers[n], !.arg = a]
    /\ UNCHANGED <<authToken, deviceCode, repoConfig, now, loginVars, watch>>

(* A github-logout of another sender lands while a handler is suspended. *)
handleLogout ==
    /\ authToken # ""
    /\ authToken' = signOut(authToken)
    /\ UNCHANGED <<cmd, watch, deviceCode, repoConfig, now, loginVars>>

(* The command surface: messages are dispatched one after another, each    *)
(* handled from dispatch to response, a github-login last; every storage   *)
(* call is free to reject and every request free to fail; cancel and       *)
(* logout of other senders land in between.                                *)
InitCmd ==
    /\ authToken \in {"", "tokA"}
    /\ deviceCode \in {Null} \cup
          {WithExpiresAt(DeviceData(1, e), e * MsPerSecond) : e \in ExpiresInValues}
    /\ repoConfig \in Targets
    /\ now = 0
    /\ pc = [h \in Handlers |-> "idle"]
    /\ info = [h \in Handlers |-> Null]
    /\ resp = [h \in Handlers |-> NoResp]
    /\ attempts = [h \in Handlers |-> 0]
    /\ pollResult = [h \in Handlers |-> "none"]
    /\ tokenGot = [h \in Handlers |-> ""]
    /\ lastAnswer = [h \in Handlers |-> "none"]
    /\ cmd = IdleCmd
    /\ watch = InitWatch

NextCmd ==
    \/ Tick
    \/ onMessage
    \/ CheckFlowIsActive
    \/ CheckFlowIsActiveSet
    \/ CheckFlowGet
    \/ CancelClear
    \/ AuthGet
    \/ AuthValidate
    \/ AuthGet2
    \/ AuthUser
    \/ LogoutSet
    \/ OpenGet
    \/ ReposGet
    \/ ReposGet2
    \/ ReposFetch
    \/ SaveSet
    \/ PathSet
    \/ CommitGetToken
    \/ CommitGetRepo
    \/ CommitPut
    \/ handleCancelDeviceFlow
    \/ handleLogout
    \/ cmd.pc \in {"idle", "done"} /\ LoginIsActive(1)
    \/ LoginIsActiveSet(1)
    \/ LoginGetInfo(1)
    \/ DeviceFetchOk(1)
    \/ DeviceFetchFail(1)
    \/ DeviceStore(1)
    \/ cmd.pc \in {"idle", "done"} /\ LoginIsActiveReject(1)
    \/ LoginGetInfoReject(1)
    \/ DeviceStoreReject(1)

SpecCmd == InitCmd /\ [][NextCmd]_vars

(* The command surface with the poll task of the login that follows the    *)
(* commands: every writer of the Credential is present.                    *)
NextCredential ==
    \/ NextCmd
    \/ PollLaunch(1)
    \/ \E r \in TokenResponses : PollResponse(1, r, MaxPending)
    \/ PollSetToken(1)
    \/ PollClear(1)

SpecCredential == InitCmd /\ [][NextCredential]_vars

(* The command surface with a save-repo-config of another sender landing   *)
(* at any point, also between the dispatch of a command and its write.     *)
NextTarget ==
    \/ NextCmd
    \/ handleSaveRepoConfig

SpecTarget == InitCmd /\ [][NextTarget]_vars

(* ------------------------------------------- from the page to the remote *)
(* Labels saveSolutionToGitHub may be called with: the ones above, the     *)
(* `unknown` of determineLanguage, what it makes of C++, and labels a      *)
(* caller has not lower-cased.                                             *)
ButtonLabels == LanguageLabels \cup {"unknown", "cpp", "C#"}

(* The content script sends a solution: saveSolutionToGitHub builds the    *)
(* message, chrome.runtime.sendMessage delivers it and the listener calls  *)
(* handleSubmitLeetCodeSolution.                                           *)
sendSolution(language, code) ==
    /\ cmd.pc \in {"idle", "done"}
    /\ watch.messages < MaxEvents
    /\ watch' = [watch EXCEPT !.messages = @ + 1]
    /\ cmd' = [IdleCmd EXCEPT
                  !.name = "submit-leetcode-solution",
                  !.pc = handlers["submit-leetcode-solution"],
                  !.arg = [data |-> saveSolutionToGitHub(TwoSum, "Two Sum",
                                                         language, code)]]
    /\ UNCHANGED <<authToken, deviceCode, repoConfig, now, loginVars>>

(* SubmissionData has `extension?: string`: the messages of a sender that  *)
(* leaves it out (<<>> stands for the missing and for the empty one).      *)
MessagesWithoutExtension ==
    {[m EXCEPT !.extension = <<>>] : m \in SolutionMessages}

(* A submit-leetcode-solution without an extension is dispatched. *)
onMessageWithoutExtension ==
    /\ cmd.pc \in {"idle", "done"}
    /\ \E d \in MessagesWithoutExtension :
          cmd' = [IdleCmd EXCEPT
                    !.name = "submit-leetcode-solution",
                    !.pc = handlers["submit-leetcode-solution"],
                    !.arg = [data |-> d]]
    /\ UNCHANGED <<authToken, deviceCode, repoConfig, now, loginVars, watch>>

(* Solutions on their way from saveSolutionToGitHub to the PUT. *)
NextPublish ==
    \/ Tick
    \/ \E l \in ButtonLabels : \E c \in SourceCodes : sendSolution(l, c)
    \/ onMessageWithoutExtension
    \/ CommitGetToken
    \/ CommitGetRepo
    \/ CommitPut

SpecPublish == InitCmd /\ [][NextPublish]_vars

(* ================================================= the submission watcher *)
bgVars == <<authToken, deviceCode, repoConfig, now, loginVars, cmd>>

(* `submissionId && ...` *)
TruthyId(id) == id # NullId /\ id # ""

(* A processSuccessfulSubmission that goes on to getSolutionCode without   *)
(* a problem id.                                                           *)
processWithoutProblemId(w, id, hasProblemId) ==
    [w EXCEPT !.events[id] = @ + 1,
              !.running = @ + 1]

(* processSuccessfulSubmission is called for a detection with page id      *)
(* `id`: one SubmissionEvent.  With a problem id on the page the run is    *)
(* suspended in getSolutionCode; without one it returns at once (counted   *)
(* in `skipped`).                                                          *)
processSuccessfulSubmission(w, id, hasProblemId) ==
    [w EXCEPT !.events[id] = @ + 1,
              !.running = IF hasProblemId THEN @ + 1 ELSE @,
              !.skipped = IF hasProblemId THEN @ ELSE @ + 1]

(* The observer's handling of a node that skips no detection. *)
ObserveNodeNoDedup(w, id, hasProblemId) ==
    processSuccessfulSubmission(
        [w EXCEPT !.isWaitingForSubmissionResult = FALSE,
                  !.flagSetBy = "observer",
                  !.lastProcessedSubmissionId = id],
        id, hasProblemId)

(* The observer's handling of one added node that holds an Accepted result *)
(* element, on a page whose submission id is `id`.                         *)
ObserveNode(w, id, hasProblemId) ==
    IF TruthyId(id) /\ id = w.lastProcessedSubmissionId
    THEN w
    ELSE processSuccessfulSubmission(
             [w EXCEPT !.isWaitingForSubmissionResult = FALSE,
                       !.flagSetBy = "observer",
                       !.lastProcessedSubmissionId = id],
             id, hasProblemId)

(* mutation.addedNodes.forEach over `accepted` such nodes, in order. *)
RECURSIVE ObserveNodes(_, _, _, _)
ObserveNodes(w, id, hasProblemId, accepted) ==
    IF accepted = 0 THEN w
    ELSE ObserveNodes(ObserveNode(w, id, hasProblemId), id, hasProblemId, accepted - 1)

TotalEvents(w) ==
    w.events["555"] + w.events["556"] + w.events[NullId] + w.events[""]

(* The click listener: a click on the submit button arms the flag and      *)
(* starts a 30 s timeout.                                                  *)
SubmitClick ==
    /\ watch.timers < MaxTimers
    /\ watch' = [watch EXCEPT !.isWaitingForSubmissionResult = TRUE,
                              !.flagSetBy = "click",
                              !.timers = @ + 1]
    /\ UNCHANGED bgVars

(* A timeout callback that leaves the flag as it finds it. *)
TimerFireKeepsFlag ==
    /\ watch.timers > 0
    /\ watch' = [watch EXCEPT !.flagSetBy = "timeout", !.timers = @ - 1]
    /\ UNCHANGED bgVars

(* The oldest pending timeout fires: the flag is cleared. *)
TimerFire ==
    /\ watch.timers > 0
    /\ watch' = [watch EXCEPT !.isWaitingForSubmissionResult = FALSE,
                              !.flagSetBy = "timeout",
                              !.timers = @ - 1]
    /\ UNCHANGED bgVars

(* The MutationObserver callback runs on a batch that added `accepted`     *)
(* Accepted result elements, on a page showing submission id `id`.         *)
resultObserver(id, hasProblemId, accepted) ==
    /\ TotalEvents(watch) + accepted <= MaxEvents
    /\ LET w == [watch EXCEPT !.batch = [id |-> id, accepted |-> accepted]] IN
        watch' = IF ~watch.isWaitingForSubmissionResult THEN w
                 ELSE ObserveNodes(w, id, hasProblemId, accepted)
    /\ UNCHANGED bgVars

(* getSolutionCode resolves and saveSolutionToGitHub sends the             *)
(* submit-leetcode-solution message.                                       *)
ProcessSend ==
    /\ watch.running > 0
    /\ watch' = [watch EXCEPT !.running = @ - 1, !.messages = @ + 1]
    /\ UNCHANGED bgVars

(* getSolutionCode rejects; the catch logs the error. *)
ProcessFail ==
    /\ watch.running > 0
    /\ watch' = [watch EXCEPT !.running = @ - 1]
    /\ UNCHANGED bgVars

NextWatch ==
    \/ SubmitClick
    \/ TimerFire
    \/ \E id \in PageIds : \E b \in BOOLEAN : \E n \in 0 .. MaxAccepted :
          resultObserver(id, b, n)
    \/ ProcessSend
    \/ ProcessFail

SpecWatch == Init /\ [][NextWatch]_vars

(* A timeout that was set fires: the page's timers are not starved.        *)
SpecWatchLive == SpecWatch /\ WF_vars(TimerFire)

(* ====================================================== the code extractor *)
ContainerTimeout == <<"Timed out waiting for editor container to appear.">>
MonacoTimeout == <<"Timed out waiting for Monaco editor.">>
ExtractionFailed(msg) == <<"Failed to extract code from editor: ">> \o msg

(* A `check` that never gives up. *)
checkNeverRejects(x, found) ==
    LET c == [x EXCEPT !.checks[x.pc] = @ + 1, !.found[x.pc] = found] IN
    IF found THEN [c EXCEPT !.settled = "resolved"]
    ELSE [c EXCEPT !.elapsed = @ + interval]

(* One run of `check` of the wait x.pc; `found` is whether the page has    *)
(* what the wait looks for (the .monaco-editor element, a model with       *)
(* getValue).  Without it, `elapsed` grows by the interval and the wait    *)
(* either rejects or sets the next timer.                                  *)
check(x, found) ==
    LET c == [x EXCEPT !.checks[x.pc] = @ + 1, !.found[x.pc] = found] IN
    IF found THEN [c EXCEPT !.settled = "resolved"]
    ELSE LET e == c.elapsed + interval IN
         IF e >= timeout
         THEN [c EXCEPT !.elapsed = e, !.settled = "rejected"]
         ELSE [c EXCEPT !.elapsed = e]

(* waitForEditorContainer() / waitForMonacoEditor(): a new promise with    *)
(* its own `elapsed`, and the first `check` at once.                       *)
wait(x, phase, found) ==
    check([x EXCEPT !.pc = phase, !.elapsed = 0, !.settled = "none"], found)

(* getSolutionCode after a container wait that goes on to the editor wait  *)
(* however the container wait settled.                                     *)
afterContainerIgnoresTimeout(x, monacoFound) ==
    IF x.pc = "container" /\ x.settled # "none"
    THEN wait(x, "monaco", monacoFound)
    ELSE x

(* getSolutionCode once the container wait has settled: the editor wait    *)
(* starts if it resolved, the catch rethrows if it rejected.               *)
afterContainer(x, monacoFound) ==
    IF x.pc = "container" /\ x.settled = "resolved"
    THEN wait(x, "monaco", monacoFound)
    ELSE IF x.pc = "container" /\ x.settled = "rejected"
    THEN [x EXCEPT !.pc = "failed", !.error = ExtractionFailed(ContainerTimeout)]
    ELSE x

(* getSolutionCode once the editor wait has settled: the code is returned  *)
(* or the catch rethrows.                                                  *)
afterMonaco(x) ==
    IF x.pc = "monaco" /\ x.settled = "resolved"
    THEN [x EXCEPT !.pc = "done"]
    ELSE IF x.pc = "monaco" /\ x.settled = "rejected"
    THEN [x EXCEPT !.pc = "failed", !.error = ExtractionFailed(MonacoTimeout)]
    ELSE x

(* The promise reactions that follow a `check`, up to the next timer.      *)
getSolutionCode(x, monacoFound) == afterMonaco(afterContainer(x, monacoFound))

(* processSuccessfulSubmission after `await getSolutionCode()`: with the   *)
(* code saveSolutionToGitHub sends the message, on a rejection the catch   *)
(* logs the error.                                                         *)
afterGetSolutionCode(w) ==
    IF w.extraction.pc = "done"
    THEN [w EXCEPT !.running = @ - 1, !.messages = @ + 1]
    ELSE IF w.extraction.pc = "failed"
    THEN [w EXCEPT !.running = @ - 1]
    ELSE w

(* The timer of the pending wait fires and `check` runs again.             *)
WaitCheck(found, monacoFound) ==
    /\ watch.extraction.pc \in {"container", "monaco"}
    /\ watch' = afterGetSolutionCode(
                    [watch EXCEPT !.extraction =
                        getSolutionCode(check(@, found), monacoFound)])
    /\ UNCHANGED bgVars

(* The content script at the end of the observer run that detected a       *)
(* success after a submit click, on a page with a problem id:              *)
(* processSuccessfulSubmission has called getSolutionCode, which has       *)
(* started the container wait and made its first check.                    *)
InitExtract ==
    /\ authToken = ""
    /\ deviceCode = Null
    /\ repoConfig = DefaultRepoConfig
    /\ now = 0
    /\ pc = [h \in Handlers |-> "idle"]
    /\ info = [h \in Handlers |-> Null]
    /\ resp = [h \in Handlers |-> NoResp]
    /\ attempts = [h \in Handlers |-> 0]
    /\ pollResult = [h \in Handlers |-> "none"]
    /\ tokenGot = [h \in Handlers |-> ""]
    /\ lastAnswer = [h \in Handlers |-> "none"]
    /\ cmd = IdleCmd
    /\ \E id \in PageIds : \E found \in BOOLEAN : \E monacoFound \in BOOLEAN :
         LET clicked == [InitWatch EXCEPT !.isWaitingForSubmissionResult = TRUE,
                                          !.flagSetBy = "click",
                                          !.timers = 1,
                                          !.batch = [id |-> id, accepted |-> 1]]
             detected == ObserveNodes(clicked, id, TRUE, 1)
         IN watch = afterGetSolutionCode(
                        [detected EXCEPT !.extraction =
                            getSolutionCode(wait(@, "container", found),
                                            monacoFound)])

NextExtract ==
    \/ \E found \in BOOLEAN : \E monacoFound \in BOOLEAN :
          WaitCheck(found, monacoFound)
    \/ TimerFire

(* A timer that a wait has set fires.                                      *)
SpecExtract ==
    /\ InitExtract
    /\ [][NextExtract]_vars
    /\ WF_vars(\E found \in BOOLEAN : \E monacoFound \in BOOLEAN :
                  WaitCheck(found, monacoFound))

(* Concurrent dispatches: any number of github-login handlers in flight    *)
(* at once, with cancel and reload at any point; the clock stands still.   *)
Next ==
    \/ \E h \in Handlers : LoginIsActive(h)
    \/ \E h \in Handlers : LoginIsActiveSet(h)
    \/ \E h \in Handlers : LoginGetInfo(h)
    \/ \E h \in Handlers : DeviceFetchOk(h)
    \/ \E h \in Handlers : DeviceFetchFail(h)
    \/ \E h \in Handlers : DeviceStore(h)
    \/ \E h \in Handlers : PollLaunch(h)
    \/ \E h \in Handlers : \E r \in TokenResponses : PollResponse(h, r, MaxPending)
    \/ \E h \in Handlers : PollSetToken(h)
    \/ \E h \in Handlers : PollClear(h)
    \/ handleCancelDeviceFlow
    \/ handleSaveRepoConfig
    \/ init

Spec == Init /\ [][Next]_vars

(* Dispatches one after another: a github-login message arrives only when  *)
(* no other github-login handler is between its dispatch and its response; *)
(* the clock advances, poll tasks run in the background.                   *)
InHandler(h) == pc[h] \in {"isActiveSet", "getInfo", "fetchDevice", "storeDevice"}

LoginNext(h) == (\A g \in Handlers : ~InHandler(g)) /\ LoginIsActive(h)

NextSeq ==
    \/ Tick
    \/ \E h \in Handlers : LoginNext(h)
    \/ \E h \in Handlers : LoginIsActiveSet(h)
    \/ \E h \in Handlers : LoginGetInfo(h)
    \/ \E h \in Handlers : DeviceFetchOk(h)
    \/ \E h \in Handlers : DeviceFetchFail(h)
    \/ \E h \in Handlers : DeviceStore(h)
    \/ \E h \in Handlers : PollLaunch(h)
    \/ \E h \in Handlers : \E r \in TokenResponses : PollResponse(h, r, MaxPending)
    \/ \E h \in Handlers : PollSetToken(h)
    \/ \E h \in Handlers : PollClear(h)
    \/ handleCancelDeviceFlow
    \/ init

SpecSeq == Init /\ [][NextSeq]_vars

(* One login and its poll task on their own, the token endpoint free to    *)
(* answer anything, to the end of the 60 attempts; cancel-device-flow may  *)
(* arrive at any point.                                                    *)
InitPoll ==
    /\ authToken \in {""} \cup Tokens
    /\ deviceCode = Null
    /\ repoConfig = DefaultRepoConfig
    /\ now = 0
    /\ pc = [h \in Handlers |-> "idle"]
    /\ info = [h \in Handlers |-> Null]
    /\ resp = [h \in Handlers |-> NoResp]
    /\ attempts = [h \in Handlers |-> 0]
    /\ pollResult = [h \in Handlers |-> "none"]
    /\ tokenGot = [h \in Handlers |-> ""]
    /\ lastAnswer = [h \in Handlers |-> "none"]
    /\ cmd = IdleCmd
    /\ watch = InitWatch

NextPoll ==
    \/ Tick
    \/ LoginIsActive(1)
    \/ DeviceFetchOk(1)
    \/ DeviceFetchFail(1)
    \/ DeviceStore(1)
    \/ PollLaunch(1)
    \/ \E r \in TokenResponses : PollResponse(1, r, maxAttempts)
    \/ PollSetToken(1)
    \/ PollClear(1)
    \/ handleCancelDeviceFlow

(* Every request is answered or fails, and every storage write lands: a    *)
(* poll task is never left waiting forever.                                *)
SpecPoll ==
    /\ InitPoll
    /\ [][NextPoll]_vars
    /\ WF_vars(\E r \in TokenResponses : PollResponse(1, r, maxAttempts))
    /\ WF_vars(PollSetToken(1))
    /\ WF_vars(PollClear(1))

(* ================================================================ claims *)

(* A handler that has found no active session and whose startDeviceFlow    *)
(* has not yet stored its record: its device-code request is out.          *)
StartingFlow(h) == pc[h] \in {"fetchDevice", "storeDevice"}

(* C1: single-flight under concurrency - of the github-login dispatches    *)
(* in flight at once that found no stored session, at most one has a       *)
(* device-code request out (and so at most one goes on to launch a poll).  *)
(* Stated as the claim has it; the code violates it.                       *)
C1_SingleFlightUnderConcurrency ==
    \A h1, h2 \in Handlers : (StartingFlow(h1) /\ StartingFlow(h2)) => h1 = h2

(* C2: a github-login dispatched after another, while a non-expired        *)
(* session is stored, issues no device-code request, launches no poll,     *)
(* leaves the stored session as it is, and answers with the stored         *)
(* session's user_code and verification_uri.                               *)
C2_LaterLoginSurfacesSession ==
    [][\A h \in Handlers :
        /\ (/\ pc[h] = "idle" /\ pc'[h] # "idle"
            /\ deviceCode # Null /\ deviceCode.expires_at > now)
           => (/\ pc'[h] = "getInfo"
               /\ deviceCode' = deviceCode
               /\ attempts'[h] = 0)
        /\ (pc[h] = "getInfo" /\ pc'[h] = "done" /\ deviceCode # Null)
           => (/\ resp'[h].kind = "success"
               /\ resp'[h].alreadyInProgress
               /\ resp'[h].deviceCode = deviceCode.user_code
               /\ resp'[h].verificationUrl = deviceCode.verification_uri
               /\ deviceCode' = deviceCode
               /\ attempts'[h] = 0)
      ]_vars

(* C2 witness: one dispatch has started a flow and a later one has been    *)
(* answered with the session in progress.                                  *)
C2_Witness ==
    \E h, g \in Handlers :
        /\ h # g
        /\ resp[g].kind = "success" /\ ~resp[g].alreadyInProgress
        /\ resp[h].kind = "success" /\ resp[h].alreadyInProgress
        /\ resp[h].deviceCode = resp[g].deviceCode
        /\ deviceCode # Null

(* C3: for every stored session with expires_at <= now, isActive resolves  *)
(* false and clears the record, never rewriting expires_at.  Stated as the *)
(* claim has it; the code violates it.                                     *)
C3_ExpiredSessionIsInactive ==
    (deviceCode # Null /\ deviceCode.expires_at <= now)
        => (/\ isActive(deviceCode, now).result = FALSE
            /\ isActive(deviceCode, now).write
            /\ isActive(deviceCode, now).value = Null)

(* C4: a github-login that finds a stale session (expires_at passed, no    *)
(* poll task alive) has the lazy expiry check clear it and goes on to a    *)
(* fresh flow.  Stated as the claim has it; the code violates it.          *)
C4_StaleSessionReclaimed ==
    [][\A h \in Handlers :
        (pc[h] = "idle" /\ pc'[h] # "idle" /\ Seen(deviceCode, now) = "stale")
           => (pc'[h] = "isActiveSet" /\ info'[h] = Null)
      ]_vars

(* C5: a poll task issues at most 60 token requests, every non-terminal    *)
(* answer (authorization_pending, non-OK status) costs one attempt, no     *)
(* request follows the answer that settles it, and it always terminates.   *)
C5_PollTerminates ==
    /\ [](attempts[1] <= maxAttempts)
    /\ [][/\ (pc[1] = "polling" /\ attempts'[1] # attempts[1])
              => (/\ lastAnswer'[1] \in {"pending", "notOk"}
                  /\ attempts'[1] = attempts[1] + 1
                  /\ pc'[1] = "polling")
          /\ pc[1] \in {"setToken", "clear", "done"}
              => (pc'[1] # "polling" /\ attempts'[1] <= attempts[1])
          /\ (pc[1] = "polling" /\ lastAnswer'[1] \in {"token", "error"})
              => (pc'[1] # "polling" /\ attempts'[1] = attempts[1])
        ]_vars
    /\ (pc[1] = "polling") ~> (pc[1] = "done")

(* C5 witness: the 60th request was answered authorization_pending and     *)
(* the task has given up.                                                  *)
C5_Witness ==
    /\ pc[1] = "clear"
    /\ attempts[1] = maxAttempts
    /\ pollResult[1] = "timeout"
    /\ lastAnswer[1] = "pending"

(* C6 as the claim has it: after a transport failure the poll task is      *)
(* still polling, unless the 60 attempts are used up.  The code violates   *)
(* it.                                                                     *)
C6_TransportFailureRetried ==
    lastAnswer[1] = "transport" => (pc[1] = "polling" \/ attempts[1] = maxAttempts)

(* C6 amended: a transport failure settles the poll task at once, at any   *)
(* attempt: no further request, and the handler's clear is issued; only    *)
(* authorization_pending and non-OK answers are retried.                   *)
C6_TransportFailureTerminal ==
    /\ lastAnswer[1] = "transport" => (pc[1] = "clear" /\ pollResult[1] = "transport")
    /\ (lastAnswer[1] \in {"pending", "notOk"} /\ attempts[1] < maxAttempts)
        => pc[1] = "polling"

(* C6 witness: the first request failed in transport and the task is over. *)
C6_Witness ==
    /\ lastAnswer[1] = "transport"
    /\ attempts[1] = 1
    /\ pc[1] = "clear"

(* C7: a poll that is answered with access_token t, after any number of    *)
(* authorization_pending answers, leads to Credential = t, no stored       *)
(* session and the task terminated.                                        *)
C7_SuccessfulFlow ==
    \A t \in Tokens :
        (lastAnswer[1] = "token" /\ tokenGot[1] = t)
            ~> (pc[1] = "done" /\ authToken = t /\ deviceCode = Null)

(* C7 witness: two authorization_pending answers, then the token, which    *)
(* has replaced another Credential; the clear is still to land.            *)
C7_Witness ==
    /\ pc[1] = "clear"
    /\ pollResult[1] = "token"
    /\ attempts[1] = 3
    /\ authToken = tokenGot[1]
    /\ authToken = "tokB"

(* C8: a poll task that ends without a token (rejected, or the 60 attempts *)
(* used up) never writes the Credential, and its end leaves no stored      *)
(* session.                                                                *)
C8_FailedPollClearsSession ==
    [][/\ pollResult'[1] \in {"rejected", "timeout"} => authToken' = authToken
       /\ (pc[1] = "clear" /\ pc'[1] = "done") => deviceCode' = Null
       /\ pollResult'[1] \in {"rejected", "timeout"} => pc'[1] \in {"clear", "done"}
      ]_vars

(* C8 witness: the task timed out, a Credential of an earlier login is     *)
(* still stored and the session is gone.                                   *)
C8_Witness ==
    /\ pc[1] = "done"
    /\ pollResult[1] = "timeout"
    /\ authToken = "tokA"
    /\ deviceCode = Null

(* The stored records of a cancel result.                                  *)
StoreOf(r) == [authToken |-> r.authToken, deviceCode |-> r.deviceCode,
               repoConfig |-> r.repoConfig]

(* C9: cancel-device-flow, from any reachable store: afterwards no session *)
(* is stored, Credential and repository target are as before, the response *)
(* is {success: true}, and a second cancel gives the same store and the    *)
(* same response.                                                          *)
C9_CancelIdempotent ==
    /\ [](LET r == CancelFlow(Stored) IN
            /\ r.deviceCode = Null
            /\ r.authToken = authToken
            /\ r.repoConfig = repoConfig
            /\ r.response = [kind |-> "success"]
            /\ CancelFlow(StoreOf(r)) = r)
    /\ [][(deviceCode # Null /\ deviceCode' = Null /\ pc' = pc)
            => (authToken' = authToken /\ repoConfig' = repoConfig)]_vars

(* C9 witness: the session was cleared under a poll task that is still     *)
(* running, with a Credential and a repository target stored: only a       *)
(* cancel does that.                                                       *)
C9_Witness ==
    /\ deviceCode = Null
    /\ authToken # ""
    /\ repoConfig # DefaultRepoConfig
    /\ pc[1] = "polling"
    /\ \A g \in Handlers : g # 1 => pc[g] = "idle"

(* C10: the response to a github-login that starts a flow is sent once the *)
(* session is stored and before the poll issues a token request, and it    *)
(* stands whatever the poll does afterwards.                               *)
C10_ResponseBeforePoll ==
    /\ [](StartingFlow(1) => resp[1] = NoResp)
    /\ []((attempts[1] >= 1 \/ pc[1] \in {"launch", "polling", "setToken", "clear"}
            \/ pollResult[1] # "none")
          => (resp[1].kind = "success" /\ ~resp[1].alreadyInProgress))
    /\ [][/\ (resp[1] = NoResp /\ resp'[1].kind = "success")
              => (/\ deviceCode' # Null
                  /\ resp'[1].deviceCode = deviceCode'.user_code
                  /\ resp'[1].verificationUrl = deviceCode'.verification_uri
                  /\ attempts'[1] = 0)
          /\ resp[1] # NoResp => resp'[1] = resp[1]
        ]_vars

(* C10 witness: the poll never got a token and ran into the timeout; the   *)
(* response had been sent with the user code.                              *)
C10_Witness ==
    /\ pc[1] = "done"
    /\ pollResult[1] = "timeout"
    /\ resp[1].kind = "success"
    /\ resp[1].deviceCode = <<"uc", 1>>

(* C11: cancel-device-flow does not abort the poll loop.  The cancel step  *)
(* leaves a polling task polling; with the session record gone, the task   *)
(* still has its request answered, a non-terminal answer still costs one   *)
(* attempt and sends the next request until the 60 are used up, and a      *)
(* terminal answer settles it as it would with the record in place.        *)
C11_CancelDoesNotAbortPoll ==
    /\ []((pc[1] = "polling" /\ deviceCode = Null)
            => ENABLED PollResponse(1, [kind |-> "pending"], maxAttempts))
    /\ [][/\ (pc[1] = "polling" /\ deviceCode # Null /\ deviceCode' = Null)
              => (pc'[1] = "polling" /\ attempts'[1] = attempts[1])
          /\ (/\ pc[1] = "polling" /\ deviceCode = Null
              /\ (attempts'[1] # attempts[1] \/ pc'[1] # pc[1])
              /\ lastAnswer'[1] \in {"pending", "notOk"})
              => IF attempts[1] < maxAttempts
                 THEN pc'[1] = "polling" /\ attempts'[1] = attempts[1] + 1
                 ELSE pc'[1] = "clear" /\ pollResult'[1] = "timeout"
          /\ (/\ pc[1] = "polling" /\ deviceCode = Null
              /\ pc'[1] # pc[1] /\ lastAnswer'[1] = "token")
              => pc'[1] = "setToken"
        ]_vars

(* C11 witness: the session was cancelled under a running poll task, which *)
(* is at its 60th request after a run of authorization_pending answers.    *)
C11_Witness ==
    /\ pc[1] = "polling"
    /\ deviceCode = Null
    /\ attempts[1] = maxAttempts
    /\ lastAnswer[1] = "pending"

(* C12: isAuthenticated() with no stored Credential resolves false without *)
(* a request; with a Credential it sends exactly one request to the        *)
(* identity endpoint, carrying that Credential, and resolves true exactly  *)
(* when the answer has status 200: every other status and a transport      *)
(* failure give false, and check-auth-status then answers isLoggedIn:false *)
(* although a token is stored.                                             *)
C12_IsAuthenticated ==
    /\ [][/\ (/\ cmd.pc = "auth.get" /\ cmd'.pc # "auth.get"
              /\ cmd'.answer = StoreAnswer("ok"))
              => IF authToken = ""
                 THEN cmd'.auth = "false" /\ cmd'.requests = <<>>
                 ELSE /\ cmd'.auth = "none"
                      /\ cmd'.requests = <<IdentityRequest(authToken)>>
          /\ (cmd.pc = "auth.validate" /\ cmd'.pc # "auth.validate")
              => /\ cmd'.requests = cmd.requests
                 /\ Len(cmd.requests) = 1
                 /\ cmd'.auth = IF cmd'.answer.kind = "status"
                                    /\ cmd'.answer.status = 200
                                 THEN "true" ELSE "false"
        ]_vars
    /\ []((cmd.name = "check-auth-status" /\ cmd.pc = "done" /\ cmd.auth = "false")
            => (cmd.resp.isLoggedIn = FALSE /\ Len(cmd.requests) <= 1))

(* C12 witness: a token is stored, the identity endpoint answered 401, and *)
(* check-auth-status has answered that the user is not logged in.          *)
C12_Witness ==
    /\ cmd.name = "check-auth-status" /\ cmd.pc = "done"
    /\ authToken # ""
    /\ cmd.auth = "false"
    /\ cmd.answer.kind = "status" /\ cmd.answer.status = 401
    /\ Len(cmd.requests) = 1
    /\ cmd.resp = [isLoggedIn |-> FALSE]

(* What a collaborator's failure looks like in the handler's last answer:  *)
(* a storage call that rejected, a request that failed in transport or     *)
(* came back with a non-success status.                                    *)
CollaboratorFailed(a) ==
    \/ a.kind = "store" /\ a.outcome = "reject"
    \/ a.kind = "transport"
    \/ a.kind = "status" /\ ~ResOk(a.status)

(* C13: every handler sends exactly one response, whatever its             *)
(* collaborators do: never a second one, none before its last step, one    *)
(* when it has ended; a failed storage call or request ends the handler    *)
(* with its one response, and so does a record that was cleared between    *)
(* the check and the read.  The same for github-login.                     *)
C13_ExactlyOneResponse ==
    /\ [](cmd.sent <= 1)
    /\ [](cmd.pc = "done" => (cmd.sent = 1 /\ cmd.resp # NoResp))
    /\ [](cmd.pc \notin {"idle", "done"} => (cmd.sent = 0 /\ cmd.resp = NoResp))
    /\ [][/\ (cmd' # cmd /\ cmd.pc \notin {"idle", "done"}
               /\ CollaboratorFailed(cmd'.answer))
              => (cmd'.pc = "done" /\ cmd'.sent = 1)
          /\ (cmd' # cmd /\ cmd.pc = "cdf.get" /\ deviceCode = Null)
              => (cmd'.pc = "done" /\ cmd'.sent = 1)
          /\ resp[1] # NoResp => resp'[1] = resp[1]
        ]_vars
    /\ [](InHandler(1) => resp[1] = NoResp)
    /\ [](pc[1] \in {"done", "launch"} => resp[1] # NoResp)

(* C13 witness: check-device-flow found the session active, a cancel       *)
(* cleared it before the read-back, and the handler answered once, with    *)
(* the error.                                                              *)
C13_Witness ==
    /\ cmd.name = "check-device-flow" /\ cmd.pc = "done"
    /\ cmd.sent = 1
    /\ cmd.resp = [inProgress |-> FALSE, error |-> <<"TypeError">>]
    /\ cmd.answer = StoreAnswer("ok")

(* The commands that answer a status question. *)
StatusCommands == {"check-device-flow", "check-auth-status"}

(* C14 as the claim has it: every response carries a success field.  The   *)
(* code violates it (check-device-flow, check-auth-status).                *)
C14_EveryResponseHasSuccess ==
    cmd.sent > 0 => "success" \in DOMAIN cmd.resp

(* C14 amended: every response of the commands other than                  *)
(* check-device-flow and check-auth-status carries a boolean success       *)
(* field, and their failure responses are exactly {success:false, error};  *)
(* check-device-flow answers with a boolean inProgress and                 *)
(* check-auth-status with a boolean isLoggedIn, without a success field,   *)
(* and their failures are {inProgress:false, error} and                    *)
(* {isLoggedIn:false, error}.                                              *)
C14_ResponseShapes ==
    /\ (cmd.sent > 0 /\ cmd.name \notin StatusCommands)
        => /\ "success" \in DOMAIN cmd.resp
           /\ cmd.resp.success \in BOOLEAN
           /\ cmd.resp.success = FALSE => DOMAIN cmd.resp = {"success", "error"}
           /\ cmd.resp.success = TRUE => "error" \notin DOMAIN cmd.resp
    /\ (cmd.sent > 0 /\ cmd.name = "check-device-flow")
        => /\ "success" \notin DOMAIN cmd.resp
           /\ cmd.resp.inProgress \in BOOLEAN
           /\ "error" \in DOMAIN cmd.resp
                => (DOMAIN cmd.resp = {"inProgress", "error"} /\ ~cmd.resp.inProgress)
    /\ (cmd.sent > 0 /\ cmd.name = "check-auth-status")
        => /\ "success" \notin DOMAIN cmd.resp
           /\ cmd.resp.isLoggedIn \in BOOLEAN
           /\ "error" \in DOMAIN cmd.resp
                => (DOMAIN cmd.resp = {"isLoggedIn", "error"} /\ ~cmd.resp.isLoggedIn)
    /\ resp[1] # NoResp
        => /\ resp[1].kind \in {"success", "error"}
           /\ resp[1].kind = "error" => DOMAIN resp[1] = {"kind", "error"}

(* C14 witness: a submit-leetcode-solution that the remote rejected has    *)
(* been answered {success:false, error}.                                   *)
C14_Witness ==
    /\ cmd.name = "submit-leetcode-solution" /\ cmd.sent = 1
    /\ cmd.answer.kind = "status" /\ cmd.answer.status = 401
    /\ cmd.resp = [success |-> FALSE,
                   error |-> <<"GitHub API error: ", "Bad credentials">>]

(* The step of commitSolutionToGithub at which the configuration read has  *)
(* resolved: the check is made and the PUT, if any, goes out.              *)
ConfigRead ==
    /\ cmd.pc = "commit.getRepo" /\ cmd'.pc # "commit.getRepo"
    /\ cmd'.answer = StoreAnswer("ok")

(* C15 as the claim has it: no request when the stored owner or repo is    *)
(* empty, and exactly one PUT in every other case, whatever the            *)
(* Credential.  The code violates it.                                      *)
C15_PutUnlessTargetEmpty ==
    [][ConfigRead
        => IF repoConfig.owner = "" \/ repoConfig.repo = ""
           THEN cmd'.requests = <<>>
           ELSE Len(cmd'.requests) = 1 /\ cmd'.requests[1].method = "PUT"
      ]_vars

(* C15 amended: commitSolutionToGithub issues no request when the stored   *)
(* owner or repo is empty or no Credential is stored; in every other store *)
(* state it issues exactly one PUT, with the Credential it read, and no    *)
(* other request, whatever the PUT is answered.                            *)
C15_PutIffConfigured ==
    /\ [][ConfigRead
            => IF cmd.token = "" \/ repoConfig.owner = "" \/ repoConfig.repo = ""
               THEN /\ cmd'.requests = <<>>
                    /\ cmd'.resp = Failure(<<"Missing GitHub configuration">>)
               ELSE /\ Len(cmd'.requests) = 1
                    /\ cmd'.requests[1].method = "PUT"
                    /\ cmd'.requests[1].token = cmd.token
                    /\ cmd'.requests[1].owner = repoConfig.owner
                    /\ cmd'.requests[1].repo = repoConfig.repo
          ]_vars
    /\ [][(cmd.name = "submit-leetcode-solution" /\ ~ConfigRead /\ cmd'.pc # "idle"
            /\ cmd'.name = cmd.name /\ cmd.pc # "done")
            => cmd'.requests = cmd.requests]_vars
    /\ [](cmd.name = "submit-leetcode-solution" => Len(cmd.requests) <= 1)

(* C15 witness: a target with owner and repo is stored, no Credential was  *)
(* read, and the submit has been refused without a request.                *)
C15_Witness ==
    /\ cmd.name = "submit-leetcode-solution" /\ cmd.pc = "done"
    /\ repoConfig.owner = "u" /\ repoConfig.repo = "r"
    /\ authToken = ""
    /\ cmd.requests = <<>>
    /\ cmd.answer = StoreAnswer("ok")
    /\ cmd.resp = Failure(<<"Missing GitHub configuration">>)

(* The extension the table gives for a language label. *)
TableExtension(language) ==
    IF toLowerCase(language) \in DOMAIN languageToExtension
    THEN languageToExtension[toLowerCase(language)] ELSE Txt

(* A path with its trailing separators taken off. *)
RECURSIVE StripSeparators(_)
StripSeparators(p) ==
    IF p # <<>> /\ p[Len(p)] = "/" THEN StripSeparators(SubSeq(p, 1, Len(p) - 1))
    ELSE p

(* The file name the claims give: {problem_id}_{timestamp_ms}.{extension}. *)
ExpectedFileName(data, t) ==
    data.problemId \o <<"_">> \o DecimalString(t) \o <<".">>
        \o TableExtension(data.language)

(* C16 as the claim has it: the PUT goes to the target path made to end    *)
(* with exactly one separator, followed by the file name.  The code        *)
(* violates it (empty path, path ending in several separators).            *)
C16_PrefixEndsWithOneSeparator ==
    [][(ConfigRead /\ cmd'.pc = "commit.put")
        => cmd'.requests[1].filePath =
              StripSeparators(repoConfig.path) \o <<"/">>
                  \o ExpectedFileName(cmd.arg.data, now)
      ]_vars

(* C16 amended: the PUT goes to {prefix}{problem_id}_{timestamp_ms}.       *)
(* {extension}, where prefix is empty for an empty target path, the path   *)
(* itself when it already ends with a separator, and the path with one     *)
(* separator appended otherwise; extension is the table entry of the       *)
(* lower-cased language (txt by default); the content is the base64 of the *)
(* UTF-8 bytes of the source.  For two-sum / python / `x=1`, path `sol`,   *)
(* timestamp 1000: sol/two-sum_1000.py with content eD0x.                  *)
C16_DestinationPath ==
    [][(ConfigRead /\ cmd'.pc = "commit.put")
        => LET p == repoConfig.path
               d == cmd.arg.data
               put == cmd'.requests[1] IN
           /\ put.filePath =
                 (IF p = <<>> THEN <<>>
                  ELSE IF p[Len(p)] = "/" THEN p ELSE p \o <<"/">>)
                     \o ExpectedFileName(d, now)
           /\ d.code = <<"x", "=", "1">> => put.content = <<"e", "D", "0", "x">>
           /\ d.code = <<"x", "e'">> => put.content = <<"e", "M", "O", "p">>
           /\ d.code = <<>> => put.content = <<>>
           /\ (p = Sol /\ d.language = "python" /\ d.problemId = TwoSum
                /\ now = 1000)
              => put.filePath =
                    <<"s", "o", "l", "/", "t", "w", "o", "-", "s", "u", "m",
                      "_", "1", "0", "0", "0", ".", "p", "y">>
      ]_vars

(* C16 witness: the PUT of the scenario is out. *)
C16_Witness ==
    /\ cmd.pc = "commit.put"
    /\ Len(cmd.requests) = 1
    /\ cmd.requests[1].filePath =
          <<"s", "o", "l", "/", "t", "w", "o", "-", "s", "u", "m",
            "_", "1", "0", "0", "0", ".", "p", "y">>
    /\ cmd.requests[1].content = <<"e", "D", "0", "x">>
    /\ cmd.requests[1].owner = "u" /\ cmd.requests[1].repo = "r"

(* C17: a non-success status for the PUT ends the submit at once: no       *)
(* second request, the response is {success:false, error}, and the error   *)
(* is `GitHub API error: ` followed by the message of the remote's body.   *)
C17_RemoteRejection ==
    /\ [][(/\ cmd.pc = "commit.put" /\ cmd' # cmd
            /\ cmd'.answer.kind = "status" /\ ~ResOk(cmd'.answer.status))
            => /\ cmd'.pc = "done"
               /\ cmd'.requests = cmd.requests
               /\ Len(cmd'.requests) = 1
               /\ cmd'.sent = 1
               /\ DOMAIN cmd'.resp = {"success", "error"}
               /\ cmd'.resp.success = FALSE
               /\ cmd'.answer.json
                    => cmd'.resp.error =
                          <<"GitHub API error: ", cmd'.answer.body.message>>
          ]_vars
    /\ []((cmd.name = "submit-leetcode-solution" /\ cmd.pc = "done")
            => Len(cmd.requests) <= 1)

(* C17 witness: the remote answered 422 with a message, which the response *)
(* carries; one PUT was sent.                                              *)
C17_Witness ==
    /\ cmd.name = "submit-leetcode-solution" /\ cmd.pc = "done"
    /\ cmd.answer.kind = "status" /\ cmd.answer.status = 422
    /\ Len(cmd.requests) = 1
    /\ cmd.resp = Failure(<<"GitHub API error: ", "Invalid request">>)

C19_OneEventPerSubmissionId ==
    \A s \in SubmissionIds : watch.events[s] <= 1

(* C20: a mutation batch that reports the id s of the detection processed  *)
(* last starts nothing, armed or not; a batch with several Accepted        *)
(* elements reporting s starts one cycle at most; a cycle sends one        *)
(* message at most.                                                        *)
C20_ImmediateRepeatSuppressed ==
    /\ [][\A s \in SubmissionIds : \A b \in BOOLEAN : \A n \in 0 .. MaxAccepted :
            resultObserver(s, b, n)
            => /\ watch.lastProcessedSubmissionId = s
                  => /\ watch'.events = watch.events
                     /\ watch'.running = watch.running
                     /\ watch'.messages = watch.messages
               /\ watch'.events[s] <= watch.events[s] + 1
               /\ watch'.running <= watch.running + 1
               /\ watch'.events[s] > watch.events[s]
                  => /\ watch'.lastProcessedSubmissionId = s
                     /\ ~watch'.isWaitingForSubmissionResult
          ]_vars
    /\ [](watch.messages + watch.running <= TotalEvents(watch))
    /\ [][watch'.messages <= watch.messages + 1]_vars

(* C20 witness: one batch added two Accepted elements on a page showing    *)
(* submission 555; one cycle ran and one message was sent.                 *)
C20_Witness ==
    /\ watch.batch = [id |-> "555", accepted |-> 2]
    /\ watch.events["555"] = 1
    /\ TotalEvents(watch) = 1
    /\ watch.messages = 1
    /\ watch.running = 0
    /\ watch.lastProcessedSubmissionId = "555"

(* C21 as the claim has it: a SubmissionEvent is emitted only while the    *)
(* awaiting-result flag is armed, and the emission turns the flag off, so  *)
(* one run of the observer emits one event at most, however many result    *)
(* nodes its batch added and whether or not an id can be derived.  The     *)
(* code violates it: the flag is read once, before the loop over the nodes.*)
C21_EventsOnlyWhileArmed ==
    [][TotalEvents(watch') > TotalEvents(watch)
         => /\ watch.isWaitingForSubmissionResult
            /\ ~watch'.isWaitingForSubmissionResult
            /\ TotalEvents(watch') = TotalEvents(watch) + 1
      ]_vars

(* C22: the flag does not stay armed forever.  A timeout that fires leaves *)
(* the flag off; only a submit click arms it; so once the timeout of the   *)
(* latest click has fired (no timeout is pending) the flag is off, and an  *)
(* observer run that finds the flag off emits no SubmissionEvent and sends *)
(* nothing.  Every armed flag is eventually off.                           *)
C22_FlagDoesNotLeak ==
    /\ [](watch.timers = 0 => ~watch.isWaitingForSubmissionResult)
    /\ [][/\ (watch'.timers < watch.timers
                  => ~watch'.isWaitingForSubmissionResult)
          /\ (~watch.isWaitingForSubmissionResult
                 /\ watch'.isWaitingForSubmissionResult
                  => watch'.timers = watch.timers + 1)
          /\ (~watch.isWaitingForSubmissionResult
                  => /\ watch'.events = watch.events
                     /\ watch'.running <= watch.running
                     /\ watch'.lastProcessedSubmissionId
                            = watch.lastProcessedSubmissionId)
         ]_vars
    /\ (watch.isWaitingForSubmissionResult
            ~> ~watch.isWaitingForSubmissionResult)

(* C22 witness: a click was made, no success was ever detected, the        *)
(* timeout fired and nothing is pending; a batch with an Accepted element  *)
(* produced no event.                                                      *)
C22_Witness ==
    /\ watch.flagSetBy = "timeout"
    /\ watch.timers = 0
    /\ ~watch.isWaitingForSubmissionResult
    /\ watch.batch.accepted = 1
    /\ TotalEvents(watch) = 0

(* C23: when the container wait runs out (its last check still finds no    *)
(* container) the extraction fails with the container timeout, the editor  *)
(* wait has never made a check, and nothing is published: no message is    *)
(* sent and no request is issued.                                          *)
C23_ContainerTimeoutPublishesNothing ==
    /\ [](watch.extraction.settled = "rejected"
             /\ ~watch.extraction.found.container
            => /\ watch.extraction.pc = "failed"
               /\ watch.extraction.error = ExtractionFailed(ContainerTimeout)
               /\ watch.extraction.checks.monaco = 0
               /\ watch.messages = 0
               /\ watch.running = 0
               /\ cmd.requests = <<>>)
    /\ [](~watch.extraction.found.container
            => watch.extraction.checks.monaco = 0 /\ watch.messages = 0)

(* C23 witness: the container was looked for until the bound and never     *)
(* found.                                                                  *)
C23_Witness ==
    /\ watch.extraction.pc = "failed"
    /\ watch.extraction.elapsed = timeout
    /\ ~watch.extraction.found.container
    /\ watch.extraction.checks.monaco = 0
    /\ watch.messages = 0
    /\ TotalEvents(watch) = 1

(* The checks one wait makes at most. *)
MaxChecks == timeout \div interval

(* C24: the two waits run one after the other and each is bounded on its   *)
(* own.  The editor wait makes a check only after the container was found; *)
(* each wait makes at most timeout/interval checks, its `elapsed` counting *)
(* from zero by the interval; a wait resolves at the first check that      *)
(* finds its target and makes no check after it; a wait that fails has     *)
(* made all its checks and found nothing; the extraction always ends.      *)
C24_WaitsSequentialAndBounded ==
    /\ [](LET x == watch.extraction IN
          /\ x.checks.container \in 1 .. MaxChecks
          /\ x.checks.monaco \in 0 .. MaxChecks
          /\ MaxChecks = 100
          /\ x.checks.monaco > 0 => x.found.container
          /\ x.pc \in {"container", "monaco"}
                => /\ x.settled = "none"
                   /\ ~x.found[x.pc]
                   /\ x.elapsed = interval * x.checks[x.pc]
                   /\ x.elapsed < timeout
          /\ x.found.container
                => x.pc \in {"monaco", "done", "failed"} /\ x.checks.monaco >= 1
          /\ x.found.monaco => x.pc = "done"
          /\ x.pc = "done" => x.found.container /\ x.found.monaco
          /\ x.pc = "failed"
                => \/ /\ x.error = ExtractionFailed(ContainerTimeout)
                      /\ ~x.found.container
                      /\ x.checks.container = MaxChecks
                   \/ /\ x.error = ExtractionFailed(MonacoTimeout)
                      /\ x.found.container /\ ~x.found.monaco
                      /\ x.checks.monaco = MaxChecks)
    /\ [][LET x == watch.extraction
              y == watch'.extraction IN
          /\ y.checks.container \in {x.checks.container, x.checks.container + 1}
          /\ y.checks.monaco \in {x.checks.monaco, x.checks.monaco + 1}
          /\ x.found.container => y.checks.container = x.checks.container
          /\ x.found.monaco => y.checks.monaco = x.checks.monaco
         ]_vars
    /\ <>(watch.extraction.pc \in {"done", "failed"})

(* C24 witness: each wait found its target at its last check, the          *)
(* hundredth, and the code was sent.                                       *)
C24_Witness ==
    /\ watch.extraction.pc = "done"
    /\ watch.extraction.checks.container = MaxChecks
    /\ watch.extraction.checks.monaco = MaxChecks
    /\ watch.extraction.elapsed = timeout - interval
    /\ watch.messages = 1

C27_FailedDeviceRequest ==
    /\ [][\A h \in Handlers :
            /\ (pc[h] = "fetchDevice" /\ resp'[h] # resp[h])
                  => /\ resp'[h].kind = "error"
                     /\ resp'[h].error \in {"Failed to initiate GitHub device flow",
                                            "Failed to fetch"}
                     /\ pc'[h] = "done"
                     /\ deviceCode' = deviceCode
                     /\ authToken' = authToken
                     /\ info'[h] = Null
                     /\ attempts'[h] = 0
            /\ (pc[h] = "done" /\ resp[h].kind = "error")
                  => pc'[h] \in {"done", "idle"}
            /\ (pc[h] = "idle" /\ pc'[h] # "idle" /\ deviceCode = Null)
                  => pc'[h] = "fetchDevice"
         ]_vars
    /\ [](\A h \in Handlers :
            resp[h].kind = "error"
            => pc[h] = "done" /\ attempts[h] = 0 /\ pollResult[h] = "none")

(* C27 witness: the first login's device-code request was refused, nothing *)
(* was stored, and the login after it has started a flow of its own.       *)
C27_Witness ==
    /\ resp[1] = RespError("Failed to initiate GitHub device flow")
    /\ pc[1] = "done"
    /\ resp[2].kind = "success" /\ ~resp[2].alreadyInProgress
    /\ deviceCode # Null /\ deviceCode.user_code = <<"uc", 2>>
    /\ pc[2] = "polling"

(* The poll task of handler h belongs to the flow whose device code the    *)
(* stored session carries.                                                 *)
OwnSession(h) == deviceCode # Null /\ deviceCode.device_code = <<"dc", h>>

(* C28 as the claim has it: the end of a poll task clears only the session *)
(* of its own flow; the unexpired session another flow has stored since    *)
(* stays.  The code violates it.                                           *)
C28_PollClearsOwnSessionOnly ==
    [][\A h \in Handlers :
        (/\ pc[h] = "clear" /\ pc'[h] = "done"
         /\ deviceCode # Null /\ ~OwnSession(h)
         /\ deviceCode.expires_at > now)
        => deviceCode' = deviceCode
      ]_vars

(* C29 as the claim has it: once the flow is cancelled (the session record *)
(* is gone under its running poll task) the task writes no Credential: a   *)
(* token answered to one of its requests is not taken to the Credential    *)
(* write, and no write of the task lands.  The code violates it.           *)
C29_CancelledIsTerminal ==
    [][/\ (/\ pc[1] = "polling" /\ deviceCode = Null
           /\ pc'[1] # "polling" /\ lastAnswer'[1] = "token")
          => pc'[1] # "setToken"
       /\ (pc[1] = "setToken" /\ deviceCode = Null)
          => authToken' = authToken
      ]_vars

(* C30 as the claim has it: the flag a submit click has armed is disarmed  *)
(* only by a detected success or by that click's own timeout.  Timeouts    *)
(* fire in the order of their clicks, so a timeout that fires while        *)
(* another is still pending belongs to an earlier click than the one that  *)
(* armed the flag last; it must leave the flag armed.  The code violates   *)
(* it.                                                                     *)
C30_EarlierTimeoutLeavesFlagArmed ==
    [][(/\ watch.isWaitingForSubmissionResult
        /\ watch'.timers < watch.timers
        /\ watch'.timers > 0)
       => watch'.isWaitingForSubmissionResult
      ]_vars

(* The commands that only read the Credential. *)
CredentialReaders ==
    {"cancel-device-flow", "check-device-flow", "check-auth-status",
     "save-repo-config", "update-repo-path", "submit-leetcode-solution",
     "open-verification-page", "fetch-github-repos"}

(* C31: the stored Credential is absent or a token the token endpoint      *)
(* returned.  A step that stores a non-empty Credential is the write of a  *)
(* poll task that settled with a token, and it stores the access_token of  *)
(* the endpoint's answer; a step that empties the Credential is a          *)
(* github-logout; the steps of the other commands leave it as it is.       *)
C31_CredentialWriters ==
    /\ [](authToken \in {""} \cup Tokens)
    /\ [][/\ (authToken' # authToken /\ authToken' # "")
                => /\ pc[1] = "setToken" /\ pollResult[1] = "token"
                   /\ lastAnswer[1] = "token"
                   /\ authToken' = tokenGot[1]
          /\ (authToken' # authToken /\ authToken' = "")
                => (LogoutSet \/ handleLogout)
          /\ (pollResult'[1] # pollResult[1] /\ lastAnswer'[1] = "token")
                => tokenGot'[1] \in Tokens /\ pollResult'[1] = "token"
          /\ (cmd.name \in CredentialReaders /\ cmd' # cmd)
                => authToken' = authToken
          /\ handleCancelDeviceFlow => authToken' = authToken
         ]_vars

(* C31 witness: the commands ran on the stored tokA, and the poll of the   *)
(* login after them has stored the tokB it was answered with.              *)
C31_Witness ==
    /\ cmd.name = "submit-leetcode-solution" /\ cmd.pc = "done"
    /\ cmd.resp = [success |-> FALSE, error |-> <<"GitHub API error: ", "Bad credentials">>]
    /\ pc[1] = "clear" /\ pollResult[1] = "token"
    /\ authToken = "tokB"

(* C32: a github-logout whose write lands empties the Credential, answers  *)
(* {success: true} and leaves the session record and the repository target *)
(* as they are; one whose write rejects changes nothing.  While no poll    *)
(* task is alive an absent Credential stays absent, and isAuthenticated()  *)
(* on an absent Credential resolves false without sending a request.       *)
C32_LogoutEmptiesCredentialOnly ==
    [][/\ (cmd.pc = "logout.set" /\ cmd'.pc # "logout.set")
            => /\ deviceCode' = deviceCode
               /\ repoConfig' = repoConfig
               /\ cmd'.requests = <<>>
               /\ IF cmd'.answer = StoreAnswer("ok")
                  THEN authToken' = "" /\ cmd'.resp = [success |-> TRUE]
                  ELSE authToken' = authToken /\ cmd'.resp = Failure(StoreError)
       /\ handleLogout
            => authToken' = "" /\ deviceCode' = deviceCode /\ repoConfig' = repoConfig
       /\ (authToken = "" /\ ~PollAlive(1)) => authToken' = ""
       /\ (/\ cmd.pc = "auth.get" /\ cmd'.pc # "auth.get"
           /\ cmd'.answer = StoreAnswer("ok") /\ authToken = "")
            => /\ cmd'.pc = "done"
               /\ cmd'.requests = <<>>
               /\ cmd'.resp = [isLoggedIn |-> FALSE]
      ]_vars

(* C32 witness: github-logout has answered; the Credential is absent, the  *)
(* session record and a configured target are still stored.                *)
C32_Witness ==
    /\ cmd.name = "github-logout" /\ cmd.pc = "done"
    /\ cmd.answer = StoreAnswer("ok")
    /\ cmd.resp = [success |-> TRUE]
    /\ authToken = ""
    /\ deviceCode # Null
    /\ repoConfig.owner = "u" /\ repoConfig.repo = "r"

C34_NoProblemIdStopsPipeline ==
    /\ [][\A id \in PageIds : \A n \in 0 .. MaxAccepted :
            resultObserver(id, FALSE, n)
            => /\ watch'.running = watch.running
               /\ watch'.messages = watch.messages
               /\ watch'.extraction = watch.extraction
               /\ TotalEvents(watch') > TotalEvents(watch)
                    => /\ ~watch'.isWaitingForSubmissionResult
                       /\ watch'.lastProcessedSubmissionId = id
                       /\ watch'.skipped
                             = watch.skipped + TotalEvents(watch') - TotalEvents(watch)
         ]_vars
    /\ [](watch.running + watch.messages + watch.skipped <= TotalEvents(watch))

(* C34 witness: a success for submission 555 was detected on a page        *)
(* without a problem id; the flag is off, 555 is the last processed id,    *)
(* nothing runs and nothing was sent.                                      *)
C34_Witness ==
    /\ watch.events["555"] = 1 /\ TotalEvents(watch) = 1
    /\ watch.skipped = 1
    /\ watch.running = 0 /\ watch.messages = 0
    /\ ~watch.isWaitingForSubmissionResult
    /\ watch.flagSetBy = "observer"
    /\ watch.lastProcessedSubmissionId = "555"
    /\ watch.timers = 1

(* The extension the table gives for each of the labels. *)
LabelExtension(l) ==
    CASE l \in {"python", "Python3"} -> <<"p", "y">>
      [] l \in {"C++", "cpp"} -> <<"c", "p", "p">>
      [] l = "C#" -> <<"c", "s">>
      [] l \in {"brainfuck", "unknown"} -> Txt

(* The last n elements of a sequence. *)
Suffix(s, n) == SubSeq(s, Len(s) - n + 1, Len(s))

====
